---------------------------- MODULE Spec2Model ----------------------------
(***************************************************************************)
(* Model of the copy-generation core of copygen-api:                       *)
(*   generator/services/openai_client.py  _parse_variations,               *)
(*                                         _fallback_extract               *)
(*   generator/services/scoring.py        PersuasionScorer                  *)
(*   generator/services/prompt_engine.py  PromptEngine.build_user_prompt    *)
(*   generator/services/openai_client.py  generate_copy_variations          *)
(*   generator/views.py                   GenerateCopyView.post             *)
(*                                                                         *)
(* Text is a sequence of one-character strings.  A character outside      *)
(* ASCII is written by its code point: "U+00E2" is one character.          *)
(* Scores are fixed-point: sub-scores in thousandths of a point, the final *)
(* score in tenths of a point (one decimal place).                         *)
(***************************************************************************)
EXTENDS Integers, Sequences, FiniteSets, TLC

VARIABLES
    raw,        \* _parse_variations: the model output being parsed
    pc,         \* _parse_variations: position in the function
    data,       \* _parse_variations: result of json.loads(raw)
    items,      \* _parse_variations: the selected item list
    result,     \* _parse_variations: the returned list of strings
    outcome,    \* _parse_variations: "none", "returned" or "raised"
    text,       \* PersuasionScorer.score: copy_text
    platform,   \* PersuasionScorer.score: platform
    spc,        \* PersuasionScorer.score: position in the method
    components, \* PersuasionScorer.score: the components dict
    score,      \* PersuasionScorer.score: the returned score, in tenths
    dWords,     \* _keyword_density_score: words
    dHits,      \* _keyword_density_score: how many of the words are keywords
    dScore,     \* _keyword_density_score: the returned score, in thousandths
    product_name,        \* build_user_prompt: product_name
    product_description, \* build_user_prompt: product_description
    target_audience,     \* build_user_prompt: target_audience
    tone,                \* build_user_prompt: tone
    prompt_platform,     \* build_user_prompt: platform
    platform_guide,      \* build_user_prompt: platform_guide
    tone_guide,          \* build_user_prompt: tone_guide
    user_prompt,         \* build_user_prompt: the returned string
    ppc,                 \* build_user_prompt: position in the method
    char_count,      \* _length_score: char_count
    length_platform, \* _length_score: platform
    length_score,    \* _length_score: the returned score, in thousandths
    lpc,             \* _length_score: position in the method
    request,      \* GenerateCopyView.post: number of the request being served
    req_platform, \* GenerateCopyView.post: data["platform"]
    vpc,          \* GenerateCopyView.post: position in the method
    raw_content,  \* generate_copy_variations: raw_content
    variations,   \* generate_copy_variations: variations, the parser's list
    gen_result,   \* GenerateCopyView.post: result, or the exception raised
    records,      \* CopyGeneration.objects: the rows, by request number
    response      \* GenerateCopyView.post: the response returned

parseVars   == <<raw, pc, data, items, result, outcome>>
scoreVars   == <<text, platform, spc, components, score>>
densityVars == <<dWords, dHits, dScore>>
promptVars  == <<product_name, product_description, target_audience, tone, prompt_platform,
                 platform_guide, tone_guide, user_prompt, ppc>>
lengthVars  == <<char_count, length_platform, length_score, lpc>>
postVars    == <<request, req_platform, vpc, raw_content, variations, gen_result, records,
                 response>>
vars == <<parseVars, scoreVars, densityVars, promptVars, lengthVars, postVars>>

-----------------------------------------------------------------------------
(* Bounds of the model                                                     *)

\* longest list of items in a generated JSON input
MaxItems == 4
\* longest free-form (not generated from JSON) raw text
MaxRawLen == 4
\* most fragments at the head of a scored text
MaxFrags == 2
\* longest word list given to _keyword_density_score
MaxWords == 120
\* largest character count given to _length_score on its own
MaxChars == 1700
\* most requests served by GenerateCopyView.post
MaxRequests == 2

-----------------------------------------------------------------------------
(* Characters and Python str helpers                                       *)

Digits == {"0","1","2","3","4","5","6","7","8","9"}

\* what str.strip() and the regex class \s remove
Whitespace == {" ", "\t", "\n", "\r", "\f"}

\* what json skips between tokens
JsonWs == {" ", "\t", "\n", "\r"}

Min(a, b) == IF a <= b THEN a ELSE b
Max(a, b) == IF a >= b THEN a ELSE b

\* s[:n]
Take(s, n) == SubSeq(s, 1, Min(n, Len(s)))

\* s[i:i+len(p)] == p   (1-based i)
HasPrefixAt(s, i, p) ==
    /\ i >= 1
    /\ i + Len(p) - 1 <= Len(s)
    /\ \A k \in 1..Len(p) : s[i + k - 1] = p[k]

\* p in s
Contains(s, p) == \E i \in 1..(Len(s) - Len(p) + 1) : HasPrefixAt(s, i, p)

\* first index >= i whose character is not in set cs (Len(s)+1 if none)
RunEnd(s, i, cs) ==
    IF i > Len(s) THEN i
    ELSE CHOOSE j \in i..(Len(s) + 1) :
            /\ (j > Len(s) \/ s[j] \notin cs)
            /\ \A k \in i..(j - 1) : s[k] \in cs

\* last index <= i whose character is not in set cs (0 if none)
RunStart(s, i, cs) ==
    IF i < 1 THEN i
    ELSE CHOOSE j \in 0..i :
            /\ (j < 1 \/ s[j] \notin cs)
            /\ \A k \in (j + 1)..i : s[k] \in cs

\* first index >= i whose character is in set cs (Len(s)+1 if none)
RunEndNot(s, i, cs) ==
    IF i > Len(s) THEN i
    ELSE CHOOSE j \in i..(Len(s) + 1) :
            /\ (j > Len(s) \/ s[j] \in cs)
            /\ \A k \in i..(j - 1) : s[k] \notin cs

\* last index <= i whose character is in set cs (0 if none)
RunStartNot(s, i, cs) ==
    IF i < 1 THEN i
    ELSE CHOOSE j \in 0..i :
            /\ (j < 1 \/ s[j] \in cs)
            /\ \A k \in (j + 1)..i : s[k] \notin cs

\* s.strip(cs)
StripChars(s, cs) ==
    LET a == RunEnd(s, 1, cs)
        b == RunStart(s, Len(s), cs)
    IN  IF a > b THEN <<>> ELSE SubSeq(s, a, b)

\* s.strip()
Strip(s) == StripChars(s, Whitespace)

\* s.strip('"')
StripQuote(s) == StripChars(s, {"\""})

RECURSIVE Flatten(_)
\* concatenation of a sequence of texts
Flatten(ss) == IF ss = <<>> THEN <<>> ELSE Head(ss) \o Flatten(Tail(ss))

RECURSIVE Join(_, _)
\* sep.join(ss)
Join(ss, sep) ==
    IF ss = <<>> THEN <<>>
    ELSE IF Len(ss) = 1 THEN ss[1]
    ELSE ss[1] \o sep \o Join(Tail(ss), sep)

-----------------------------------------------------------------------------
(* JSON values as Python objects                                           *)

JStr(s)    == [t |-> "str", s |-> s]
JInt(n)    == [t |-> "int", n |-> n]
JFloat(z, lit) == [t |-> "float", zero |-> z, lit |-> lit]
JBool(b)   == [t |-> "bool", b |-> b]
JNull      == [t |-> "null"]
JList(xs)  == [t |-> "list", items |-> xs]
\* pairs: sequence of [k |-> text, v |-> value] in insertion order, keys distinct
JDict(ps)  == [t |-> "dict", pairs |-> ps]
\* no value yet
NoValue    == [t |-> "none"]

\* Python truth value of an object: `not x` is ~Truthy(x)
Truthy(v) ==
    IF v.t = "str" THEN v.s # <<>>
    ELSE IF v.t = "int" THEN v.n # 0
    ELSE IF v.t = "float" THEN ~v.zero
    ELSE IF v.t = "bool" THEN v.b
    ELSE IF v.t = "list" THEN v.items # <<>>
    ELSE IF v.t = "dict" THEN v.pairs # <<>>
    ELSE FALSE

\* d[k] = v on a dict's pairs: an existing key keeps its position
DictSet(ps, k, v) ==
    IF \E i \in 1..Len(ps) : ps[i].k = k
    THEN [i \in 1..Len(ps) |-> IF ps[i].k = k THEN [k |-> k, v |-> v] ELSE ps[i]]
    ELSE Append(ps, [k |-> k, v |-> v])

HasKey(d, k) == \E i \in 1..Len(d.pairs) : d.pairs[i].k = k

\* d.get(k, default)
DictGet(d, k, default) ==
    IF HasKey(d, k)
    THEN d.pairs[CHOOSE i \in 1..Len(d.pairs) : d.pairs[i].k = k].v
    ELSE default

-----------------------------------------------------------------------------
(* json.loads                                                              *)

Fail == [ok |-> FALSE]
Ok(v, i) == [ok |-> TRUE, val |-> v, pos |-> i]

\* characters a strict JSON string may not hold unescaped
ControlChars == {"\t", "\n", "\r", "\f"}

\* the one-letter escapes of a JSON string (\b and \uXXXX are outside the
\* alphabet of the model)
Unescape == [c \in {"\"", "\\", "/", "n", "t", "r", "f"} |->
    IF c = "n" THEN "\n" ELSE IF c = "t" THEN "\t" ELSE IF c = "r" THEN "\r"
    ELSE IF c = "f" THEN "\f" ELSE c]

DigitVal == [c \in Digits |->
    IF c = "0" THEN 0 ELSE IF c = "1" THEN 1 ELSE IF c = "2" THEN 2
    ELSE IF c = "3" THEN 3 ELSE IF c = "4" THEN 4 ELSE IF c = "5" THEN 5
    ELSE IF c = "6" THEN 6 ELSE IF c = "7" THEN 7 ELSE IF c = "8" THEN 8 ELSE 9]

RECURSIVE DigitsVal(_, _)
\* int() of a run of digits, acc the value so far
DigitsVal(ds, acc) ==
    IF ds = <<>> THEN acc ELSE DigitsVal(Tail(ds), acc * 10 + DigitVal[Head(ds)])

RECURSIVE ScanString(_, _, _)
\* json.decoder.scanstring, strict: i is the index after the opening quote
ScanString(s, i, acc) ==
    IF i > Len(s) THEN Fail
    ELSE IF s[i] = "\"" THEN Ok(JStr(acc), i + 1)
    ELSE IF s[i] = "\\" THEN
        IF i + 1 <= Len(s) /\ s[i + 1] \in DOMAIN Unescape
        THEN ScanString(s, i + 2, Append(acc, Unescape[s[i + 1]]))
        ELSE Fail
    ELSE IF s[i] \in ControlChars THEN Fail
    ELSE ScanString(s, i + 1, Append(acc, s[i]))

\* json.scanner NUMBER_RE  (-?(?:0|[1-9]\d*))(\.\d+)?([eE][-+]?\d+)?  at i
ScanNumber(s, i) ==
    LET neg   == s[i] = "-"
        j     == IF neg THEN i + 1 ELSE i
        intOk == j <= Len(s) /\ s[j] \in Digits
        k     == IF s[j] = "0" THEN j + 1 ELSE RunEnd(s, j, Digits)
        frac  == k + 1 <= Len(s) /\ s[k] = "." /\ s[k + 1] \in Digits
        m     == IF frac THEN RunEnd(s, k + 1, Digits) ELSE k
        n     == IF m + 1 <= Len(s) /\ s[m + 1] \in {"+", "-"} THEN m + 2 ELSE m + 1
        exp   == m <= Len(s) /\ s[m] \in {"e", "E"} /\ n <= Len(s) /\ s[n] \in Digits
        e     == IF exp THEN RunEnd(s, n, Digits) ELSE m
        mant  == SubSeq(s, j, m - 1)
        absv  == DigitsVal(SubSeq(s, j, k - 1), 0)
    IN  IF ~intOk THEN Fail
        ELSE IF frac \/ exp
        THEN Ok(JFloat(\A x \in 1..Len(mant) : mant[x] \in {"0", "."},
                       SubSeq(s, i, e - 1)), e)
        ELSE Ok(JInt(IF neg THEN 0 - absv ELSE absv), k)

RECURSIVE ScanOnce(_, _)
RECURSIVE JSONArray(_, _, _)
RECURSIVE JSONObject(_, _, _)

\* json.scanner py_make_scanner._scan_once
ScanOnce(s, i) ==
    IF i > Len(s) THEN Fail
    ELSE IF s[i] = "\"" THEN ScanString(s, i + 1, <<>>)
    ELSE IF s[i] = "{" THEN
        LET j == RunEnd(s, i + 1, JsonWs)
        IN  IF j > Len(s) THEN Fail
            ELSE IF s[j] = "}" THEN Ok(JDict(<<>>), j + 1)
            ELSE IF s[j] = "\"" THEN JSONObject(s, j, <<>>)
            ELSE Fail
    ELSE IF s[i] = "[" THEN
        LET j == RunEnd(s, i + 1, JsonWs)
        IN  IF j > Len(s) THEN Fail
            ELSE IF s[j] = "]" THEN Ok(JList(<<>>), j + 1)
            ELSE JSONArray(s, j, <<>>)
    ELSE IF HasPrefixAt(s, i, <<"n","u","l","l">>) THEN Ok(JNull, i + 4)
    ELSE IF HasPrefixAt(s, i, <<"t","r","u","e">>) THEN Ok(JBool(TRUE), i + 4)
    ELSE IF HasPrefixAt(s, i, <<"f","a","l","s","e">>) THEN Ok(JBool(FALSE), i + 5)
    ELSE IF s[i] \in Digits \cup {"-"} THEN ScanNumber(s, i)
    ELSE Fail

\* json.decoder.JSONArray: i is the index of the next element, acc the
\* elements read so far
JSONArray(s, i, acc) ==
    LET v == ScanOnce(s, i)
    IN  IF ~v.ok THEN Fail
        ELSE LET j == RunEnd(s, v.pos, JsonWs)
                 xs == Append(acc, v.val)
             IN  IF j > Len(s) THEN Fail
                 ELSE IF s[j] = "]" THEN Ok(JList(xs), j + 1)
                 ELSE IF s[j] = "," THEN JSONArray(s, RunEnd(s, j + 1, JsonWs), xs)
                 ELSE Fail

\* json.decoder.JSONObject: i is the index of the opening quote of the next
\* key, acc the pairs read so far
JSONObject(s, i, acc) ==
    LET key == ScanString(s, i + 1, <<>>)
    IN  IF ~key.ok THEN Fail
        ELSE LET c == RunEnd(s, key.pos, JsonWs)
             IN  IF c > Len(s) \/ s[c] # ":" THEN Fail
                 ELSE LET v == ScanOnce(s, RunEnd(s, c + 1, JsonWs))
                      IN  IF ~v.ok THEN Fail
                          ELSE LET j  == RunEnd(s, v.pos, JsonWs)
                                   ps == DictSet(acc, key.val.s, v.val)
                                   n  == RunEnd(s, j + 1, JsonWs)
                               IN  IF j > Len(s) THEN Fail
                                   ELSE IF s[j] = "}" THEN Ok(JDict(ps), j + 1)
                                   ELSE IF s[j] = "," /\ n <= Len(s) /\ s[n] = "\""
                                        THEN JSONObject(s, n, ps)
                                   ELSE Fail

\* json.loads(s): the decoded object, or ok = FALSE for JSONDecodeError
JsonLoads(s) ==
    LET v == ScanOnce(s, RunEnd(s, 1, JsonWs))
    IN  IF ~v.ok THEN Fail
        ELSE IF RunEnd(s, v.pos, JsonWs) # Len(s) + 1 THEN Fail
        ELSE v

-----------------------------------------------------------------------------
(* str() and repr() of a decoded object                                    *)

DigitChar == <<"0","1","2","3","4","5","6","7","8","9">>

RECURSIVE NatText(_)
\* str(n) for n >= 0
NatText(n) ==
    IF n < 10 THEN <<DigitChar[n + 1]>>
    ELSE NatText(n \div 10) \o <<DigitChar[(n % 10) + 1]>>

IntText(n) == IF n < 0 THEN <<"-">> \o NatText(0 - n) ELSE NatText(n)

RECURSIVE EscapeText(_, _)
\* the body of repr(str) with quote character q
EscapeText(s, q) ==
    IF s = <<>> THEN <<>>
    ELSE LET c == Head(s)
             e == IF c = "\\" THEN <<"\\", "\\">>
                  ELSE IF c = "\n" THEN <<"\\", "n">>
                  ELSE IF c = "\t" THEN <<"\\", "t">>
                  ELSE IF c = "\r" THEN <<"\\", "r">>
                  ELSE IF c = "\f" THEN <<"\\", "x", "0", "c">>
                  ELSE IF c = q THEN <<"\\", q>>
                  ELSE <<c>>
         IN  e \o EscapeText(Tail(s), q)

\* repr(s) of a str: single quotes unless s holds ' and no "
StrRepr(s) ==
    LET q == IF (\E i \in 1..Len(s) : s[i] = "'") /\ ~(\E i \in 1..Len(s) : s[i] = "\"")
             THEN "\"" ELSE "'"
    IN  <<q>> \o EscapeText(s, q) \o <<q>>

RECURSIVE PyRepr(_)
\* repr(v); the repr of a float is its literal (exact for literals in
\* shortest form such as 1.5)
PyRepr(v) ==
    IF v.t = "str" THEN StrRepr(v.s)
    ELSE IF v.t = "int" THEN IntText(v.n)
    ELSE IF v.t = "float" THEN v.lit
    ELSE IF v.t = "bool" THEN (IF v.b THEN <<"T","r","u","e">> ELSE <<"F","a","l","s","e">>)
    ELSE IF v.t = "null" THEN <<"N","o","n","e">>
    ELSE IF v.t = "list" THEN
        <<"[">> \o Join([i \in 1..Len(v.items) |-> PyRepr(v.items[i])], <<","," ">>) \o <<"]">>
    ELSE
        <<"{">> \o Join([i \in 1..Len(v.pairs) |->
                          StrRepr(v.pairs[i].k) \o <<":"," ">> \o PyRepr(v.pairs[i].v)], <<","," ">>)
              \o <<"}">>

\* str(v)
PyStr(v) == IF v.t = "str" THEN v.s ELSE PyRepr(v)

-----------------------------------------------------------------------------
(* _fallback_extract                                                       *)

\* the placeholder returned when no text can be extracted, with the three
\* characters U+00E2 U+20AC U+201D the source file holds after "failed"
Placeholder == <<"C","o","p","y"," ","g","e","n","e","r","a","t","i","o","n"," ","f","a","i","l","e","d"," ","U+00E2","U+20AC","U+201D"," ","p","l","e","a","s","e"," ","r","e","t","r","y",".">>

\* end (index after) of a match of  \n\d+[\.\)]\s*  starting at i, 0 if none
BoundaryEnd(s, i) ==
    IF i <= Len(s) /\ s[i] = "\n"
    THEN LET a == RunEnd(s, i + 1, Digits)
         IN  IF a > i + 1 /\ a <= Len(s) /\ s[a] \in {".", ")"}
             THEN RunEnd(s, a + 1, Whitespace)
             ELSE 0
    ELSE 0

RECURSIVE ReSplit(_, _, _)
\* re.split(r"\n\d+[\.\)]\s*", s): from the start of the current segment, acc
\* the segments closed so far; the next match is the leftmost one at or after
\* from
ReSplit(s, from, acc) ==
    LET starts == {j \in from..Len(s) : BoundaryEnd(s, j) > 0}
    IN  IF starts = {} THEN Append(acc, SubSeq(s, from, Len(s)))
        ELSE LET j == CHOOSE x \in starts : \A y \in starts : x <= y
                 e == BoundaryEnd(s, j)
             IN  ReSplit(s, e, Append(acc, SubSeq(s, from, j - 1)))

RECURSIVE CleanPartsKeepQuotes(_)
\* CleanParts without the .strip('"')
CleanPartsKeepQuotes(parts) ==
    IF parts = <<>> THEN <<>>
    ELSE IF Strip(Head(parts)) # <<>>
         THEN <<Strip(Head(parts))>> \o CleanPartsKeepQuotes(Tail(parts))
         ELSE CleanPartsKeepQuotes(Tail(parts))

RECURSIVE CleanParts(_)
\* [p.strip().strip('"') for p in parts if p.strip()]
CleanParts(parts) ==
    IF parts = <<>> THEN <<>>
    ELSE IF Strip(Head(parts)) # <<>>
         THEN <<StripQuote(Strip(Head(parts)))>> \o CleanParts(Tail(parts))
         ELSE CleanParts(Tail(parts))

\* parts[:3]
TruncateParts(parts) == Take(parts, 3)

\* LastResort without the placeholder: [raw.strip()] if raw.strip() else []
LastResortEmpty(s) == IF Strip(s) # <<>> THEN <<Strip(s)>> ELSE <<>>

\* [raw.strip()] if raw.strip() else [placeholder]
LastResort(s) == IF Strip(s) # <<>> THEN <<Strip(s)>> ELSE <<Placeholder>>

FallbackExtract(s) ==
    LET parts == CleanParts(ReSplit(s, 1, <<>>))
    IN  IF parts # <<>> THEN TruncateParts(parts) ELSE LastResort(s)

-----------------------------------------------------------------------------
(* _parse_variations                                                       *)

KeyVariations == <<"v","a","r","i","a","t","i","o","n","s">>
KeyCopies     == <<"c","o","p","i","e","s">>
KeyCopy       == <<"c","o","p","y">>
KeyText       == <<"t","e","x","t">>
KeyContent    == <<"c","o","n","t","e","n","t">>

RECURSIVE FirstList(_)
\* for v in data.values(): if isinstance(v, list): items = v; break
FirstList(ps) ==
    IF ps = <<>> THEN NoValue
    ELSE IF Head(ps).v.t = "list" THEN Head(ps).v
    ELSE FirstList(Tail(ps))

\* the items taken from a dict
SelectItems(d) ==
    LET got == DictGet(d, KeyVariations, DictGet(d, KeyCopies, JList(<<>>)))
        lst == FirstList(d.pairs)
    IN  IF ~Truthy(got) /\ lst.t = "list" THEN lst ELSE got

\* whether `for item in v` can start: list, str and dict are iterable
Iterable(v) == v.t \in {"list", "str", "dict"}

\* the objects `for item in v` yields
Iterate(v) ==
    IF v.t = "list" THEN v.items
    ELSE IF v.t = "str" THEN [i \in 1..Len(v.s) |-> JStr(<<v.s[i]>>)]
    ELSE [i \in 1..Len(v.pairs) |-> JStr(v.pairs[i].k)]

\* item.get("copy", item.get("text", item.get("content", "")))
ItemText(item) ==
    DictGet(item, KeyCopy, DictGet(item, KeyText, DictGet(item, KeyContent, JStr(<<>>))))

RECURSIVE CollectCopiesPrepend(_)
\* CollectCopies with copies.insert(0, ...) for copies.append(...)
CollectCopiesPrepend(xs) ==
    IF xs = <<>> THEN <<>>
    ELSE LET item == Head(xs)
             rest == CollectCopiesPrepend(Tail(xs))
         IN  IF item.t = "str" THEN rest \o <<item.s>>
             ELSE IF item.t = "dict" /\ Truthy(ItemText(item))
                  THEN rest \o <<PyStr(ItemText(item))>>
             ELSE rest

RECURSIVE CollectCopies(_)
\* the loop over items that fills copies
CollectCopies(xs) ==
    IF xs = <<>> THEN <<>>
    ELSE LET item == Head(xs)
             rest == CollectCopies(Tail(xs))
         IN  IF item.t = "str" THEN <<item.s>> \o rest
             ELSE IF item.t = "dict" /\ Truthy(ItemText(item))
                  THEN <<PyStr(ItemText(item))>> \o rest
             ELSE rest

\* TruncateCopies without the slice: return copies
TruncateCopiesAll(copies) == copies

\* copies[:3]
TruncateCopies(copies) == Take(copies, 3)

-----------------------------------------------------------------------------
(* scoring.py: tables                                                      *)

STRONG_CTAS == {
    <<"b","u","y"," ","n","o","w">>, <<"s","h","o","p"," ","n","o","w">>, <<"g","e","t"," ","s","t","a","r","t","e","d">>, <<"s","i","g","n"," ","u","p">>,
    <<"s","u","b","s","c","r","i","b","e">>, <<"d","o","w","n","l","o","a","d">>, <<"t","r","y"," ","f","r","e","e">>, <<"c","l","a","i","m"," ","y","o","u","r">>,
    <<"s","t","a","r","t"," ","y","o","u","r">>, <<"j","o","i","n"," ","n","o","w">>, <<"b","o","o","k"," ","n","o","w">>, <<"l","e","a","r","n"," ","m","o","r","e">>,
    <<"g","e","t"," ","y","o","u","r","s">>, <<"o","r","d","e","r"," ","n","o","w">>, <<"g","r","a","b"," ","y","o","u","r","s">>, <<"r","e","s","e","r","v","e"," ","y","o","u","r">>,
    <<"u","n","l","o","c","k">>, <<"d","i","s","c","o","v","e","r">>, <<"a","p","p","l","y"," ","n","o","w">>, <<"s","t","a","r","t"," ","f","r","e","e">> }

POWER_WORDS == {
    <<"f","r","e","e">>, <<"n","e","w">>, <<"p","r","o","v","e","n">>, <<"g","u","a","r","a","n","t","e","e","d">>,
    <<"e","x","c","l","u","s","i","v","e">>, <<"l","i","m","i","t","e","d">>, <<"i","n","s","t","a","n","t">>, <<"r","e","v","o","l","u","t","i","o","n","a","r","y">>,
    <<"b","r","e","a","k","t","h","r","o","u","g","h">>, <<"s","e","c","r","e","t">>, <<"p","o","w","e","r","f","u","l">>, <<"u","l","t","i","m","a","t","e">>,
    <<"p","r","e","m","i","u","m">>, <<"t","r","a","n","s","f","o","r","m">>, <<"u","n","l","e","a","s","h">>, <<"e","f","f","o","r","t","l","e","s","s">>,
    <<"r","e","m","a","r","k","a","b","l","e">>, <<"s","t","u","n","n","i","n","g">>, <<"u","n","b","e","l","i","e","v","a","b","l","e">>, <<"i","n","c","r","e","d","i","b","l","e">>,
    <<"e","s","s","e","n","t","i","a","l">>, <<"m","a","s","s","i","v","e">>, <<"e","p","i","c">>, <<"g","a","m","e","-","c","h","a","n","g","i","n","g">>,
    <<"d","o","m","i","n","a","n","t">> }

EMOTIONAL_WORDS == {
    <<"l","o","v","e">>, <<"h","a","t","e">>, <<"f","e","a","r">>, <<"j","o","y">>,
    <<"t","r","u","s","t">>, <<"s","u","r","p","r","i","s","e">>, <<"a","m","a","z","i","n","g">>, <<"t","h","r","i","l","l","e","d">>,
    <<"d","e","v","a","s","t","a","t","i","n","g">>, <<"e","x","c","i","t","i","n","g">>, <<"i","n","s","p","i","r","i","n","g">>, <<"p","a","s","s","i","o","n","a","t","e">>,
    <<"o","b","s","e","s","s","e","d">>, <<"d","r","e","a","m","i","n","g">>, <<"c","r","a","v","i","n","g">>, <<"c","o","n","f","i","d","e","n","t">>,
    <<"p","r","o","u","d">>, <<"b","o","l","d">>, <<"g","r","a","t","e","f","u","l">>, <<"d","e","l","i","g","h","t","e","d">>,
    <<"a","n","x","i","o","u","s">>, <<"w","o","r","r","i","e","d">> }

URGENCY_WORDS == {
    <<"n","o","w">>, <<"t","o","d","a","y">>, <<"h","u","r","r","y">>, <<"l","i","m","i","t","e","d">>,
    <<"l","a","s","t"," ","c","h","a","n","c","e">>, <<"d","o","n","'","t"," ","m","i","s","s">>, <<"e","n","d","i","n","g"," ","s","o","o","n">>, <<"o","n","l","y">>,
    <<"d","e","a","d","l","i","n","e">>, <<"b","e","f","o","r","e"," ","i","t","'","s"," ","g","o","n","e">>, <<"a","c","t"," ","f","a","s","t">>, <<"r","u","n","n","i","n","g"," ","o","u","t">>,
    <<"f","i","n","a","l">>, <<"e","x","p","i","r","e","s">>, <<"c","o","u","n","t","d","o","w","n">> }

\* the alternatives of the weak-CTA regex
WEAK_CTAS == {
    <<"c","l","i","c","k">>, <<"t","a","p">>, <<"v","i","s","i","t">>, <<"c","h","e","c","k"," ","o","u","t">>,
    <<"s","e","e">>, <<"e","x","p","l","o","r","e">>, <<"f","i","n","d">>, <<"g","o"," ","t","o">> }

\* the nouns of the first social-proof pattern
PROOF_NOUNS == {<<"c","u","s","t","o","m","e","r","s">>, <<"u","s","e","r","s">>, <<"p","e","o","p","l","e">>, <<"b","u","s","i","n","e","s","s","e","s">>, <<"b","r","a","n","d","s">>}

\* platform |-> <<low, high>>
OPTIMAL_LENGTHS ==
    [p \in {"instagram", "linkedin", "google_ad", "email_subject", "facebook", "twitter"} |->
        IF p = "instagram" THEN <<100, 800>>
        ELSE IF p = "linkedin" THEN <<150, 1000>>
        ELSE IF p = "google_ad" THEN <<30, 210>>
        ELSE IF p = "email_subject" THEN <<20, 60>>
        ELSE IF p = "facebook" THEN <<40, 200>>
        ELSE <<50, 280>>]

\* OPTIMAL_LENGTHS.get(platform, (50, 500))
OptimalRange(p) == IF p \in DOMAIN OPTIMAL_LENGTHS THEN OPTIMAL_LENGTHS[p] ELSE <<50, 500>>

\* weights, in hundredths
Weights == [cta |-> 25, power_words |-> 15, emotional |-> 15, urgency |-> 10,
            length |-> 15, readability |-> 10, social_proof |-> 10]

ComponentNames == {"cta", "power_words", "emotional", "urgency", "length",
                   "readability", "social_proof"}

\* one point of a sub-score, in the fixed-point unit of the sub-scores
Point == 1000

-----------------------------------------------------------------------------
(* scoring.py: text helpers                                                *)

UpperLetters == <<"A","B","C","D","E","F","G","H","I","J","K","L","M",
                  "N","O","P","Q","R","S","T","U","V","W","X","Y","Z">>
LowerLetters == <<"a","b","c","d","e","f","g","h","i","j","k","l","m",
                  "n","o","p","q","r","s","t","u","v","w","x","y","z">>

\* upper-case letter |-> lower-case letter
LowerOf == [c \in {UpperLetters[i] : i \in 1..26} |->
               LowerLetters[CHOOSE i \in 1..26 : UpperLetters[i] = c]]

LowerChar(c) == IF c \in DOMAIN LowerOf THEN LowerOf[c] ELSE c

\* s.lower()
Lower(s) == [i \in 1..Len(s) |-> LowerChar(s[i])]

\* the characters the regex class \w matches
WordChars == {UpperLetters[i] : i \in 1..26} \cup {LowerLetters[i] : i \in 1..26}
             \cup Digits \cup {"_"}

RECURSIVE FieldsIn(_, _, _, _)
\* the non-empty maximal runs of characters outside cs within s[a..b], in
\* order, where no run crosses a or b: the run around the middle index, the
\* runs before it and the runs after it
FieldsIn(s, a, b, cs) ==
    IF a > b THEN <<>>
    ELSE LET mid == (a + b) \div 2
             lo  == RunStartNot(s, mid, cs)
             hi  == RunEndNot(s, mid, cs)
         IN  IF s[mid] \in cs
             THEN FieldsIn(s, a, mid - 1, cs) \o FieldsIn(s, mid + 1, b, cs)
             ELSE FieldsIn(s, a, lo - 1, cs) \o <<SubSeq(s, lo + 1, hi - 1)>>
                  \o FieldsIn(s, hi + 1, b, cs)

\* s.split()
SplitWords(s) == FieldsIn(s, 1, Len(s), Whitespace)

\* [x.strip() for x in re.split(r"[.!?]+", s) if x.strip()]
RECURSIVE StripNonEmpty(_)
StripNonEmpty(ss) ==
    IF ss = <<>> THEN <<>>
    ELSE IF Strip(Head(ss)) # <<>> THEN <<Strip(Head(ss))>> \o StripNonEmpty(Tail(ss))
    ELSE StripNonEmpty(Tail(ss))

Sentences(s) == StripNonEmpty(FieldsIn(s, 1, Len(s), {".", "!", "?"}))

RECURSIVE SumSeq(_)
SumSeq(ns) == IF ns = <<>> THEN 0 ELSE Head(ns) + SumSeq(Tail(ns))

RECURSIVE IsqrtIn(_, _, _)
\* the largest r in lo..hi with r * r <= x
IsqrtIn(x, lo, hi) ==
    IF lo >= hi THEN lo
    ELSE LET mid == (lo + hi + 1) \div 2
         IN  IF mid * mid <= x THEN IsqrtIn(x, mid, hi) ELSE IsqrtIn(x, lo, mid - 1)

\* floor(sqrt(x)), 0 <= x < 2^31
Isqrt(x) == IsqrtIn(x, 0, 46340)

-----------------------------------------------------------------------------
(* scoring.py: the sub-scores, in thousandths of a point                   *)

\* CtaMatches counting every occurrence: sum(text_lower.count(cta) for cta in STRONG_CTAS)
CtaMatchesOccurrences(textLower) ==
    Cardinality({<<c, i>> \in STRONG_CTAS \X (1..Len(textLower)) : HasPrefixAt(textLower, i, c)})

\* sum(1 for cta in STRONG_CTAS if cta in text_lower)
CtaMatches(textLower) == Cardinality({c \in STRONG_CTAS : Contains(textLower, c)})

\* re.search(r"(click|tap|visit|check out|see|explore|find|go to)\b", text_lower)
WeakCta(textLower) ==
    \E w \in WEAK_CTAS : \E i \in 1..Len(textLower) :
        /\ HasPrefixAt(textLower, i, w)
        /\ (i + Len(w) > Len(textLower) \/ textLower[i + Len(w)] \notin WordChars)

\* _cta_score
CtaScore(textLower) ==
    IF CtaMatches(textLower) >= 2 THEN 100 * Point
    ELSE IF CtaMatches(textLower) = 1 THEN 80 * Point
    ELSE IF WeakCta(textLower) THEN 45 * Point
    ELSE 0

\* the characters w.strip(".,!?;:\"'()") removes
Punctuation == {".", ",", "!", "?", ";", ":", "\"", "'", "(", ")"}

\* sum(1 for w in words if w.strip(...) in keyword_set)
Hits(words, keywordSet) ==
    Cardinality({i \in 1..Len(words) : StripChars(words[i], Punctuation) \in keywordSet})

\* DensityScore with the sign of the stuffing penalty flipped
DensityScoreNoPenalty(hits, n) ==
    IF hits * 100 < n THEN (hits * 3000 * Point) \div n
    ELSE IF hits * 100 <= 6 * n THEN 50 * Point + ((hits * 100 - n) * 10 * Point) \div n
    ELSE Max(100 * Point + ((hits * 100 - 6 * n) * 8 * Point) \div n, 40 * Point)

\* the score of density = hits / n, n > 0
DensityScore(hits, n) ==
    IF hits * 100 < n THEN (hits * 3000 * Point) \div n
    ELSE IF hits * 100 <= 6 * n THEN 50 * Point + ((hits * 100 - n) * 10 * Point) \div n
    ELSE Max(100 * Point - ((hits * 100 - 6 * n) * 8 * Point) \div n, 40 * Point)

\* _keyword_density_score
KeywordDensityScore(words, keywordSet) ==
    IF words = <<>> THEN 0 ELSE DensityScore(Hits(words, keywordSet), Len(words))

\* low <= char_count <= high
InOptimalRange(charCount, p) ==
    OptimalRange(p)[1] <= charCount /\ charCount <= OptimalRange(p)[2]

\* LengthScore with credit in proportion to the upper limit inside the range
LengthScoreProportional(charCount, p) ==
    LET low  == OptimalRange(p)[1]
        high == OptimalRange(p)[2]
    IN  IF low <= charCount /\ charCount <= high THEN (charCount * 100 * Point) \div high
        ELSE IF charCount < low THEN Max((charCount * 80 * Point) \div low, 0)
        ELSE Max(100 * Point - ((charCount - high) * 150 * Point) \div high, 10 * Point)

\* LengthScore without the lower limit of 10 above the range
LengthScoreNoFloor(charCount, p) ==
    LET low  == OptimalRange(p)[1]
        high == OptimalRange(p)[2]
    IN  IF low <= charCount /\ charCount <= high THEN 100 * Point
        ELSE IF charCount < low THEN Max((charCount * 80 * Point) \div low, 0)
        ELSE 100 * Point - ((charCount - high) * 150 * Point) \div high

\* _length_score
LengthScore(charCount, p) ==
    LET low  == OptimalRange(p)[1]
        high == OptimalRange(p)[2]
    IN  IF low <= charCount /\ charCount <= high THEN 100 * Point
        ELSE IF charCount < low THEN Max((charCount * 80 * Point) \div low, 0)
        ELSE Max(100 * Point - ((charCount - high) * 150 * Point) \div high, 10 * Point)

RECURSIVE DecimalDiv(_, _, _, _)
\* floor(10^k * (q + r / d)) for 0 <= r < d: long division, digit by digit
DecimalDiv(q, r, d, k) ==
    IF k = 0 THEN q
    ELSE DecimalDiv(q * 10 + (r * 10) \div d, (r * 10) % d, d, k - 1)

\* cv = sqrt(variance) / mean in ten-thousandths, for cv^2 = a / d < 20
CvTenThousandths(a, d) == Isqrt(DecimalDiv(a \div d, a % d, d, 8))

\* _readability_score.  With n sentence lengths of sum sm and sum of squares
\* sq, cv^2 = (n * sq - sm^2) / sm^2; the tests on cv are made on cv^2,
\* exactly, and cv >= 1.5 is where 100 - (cv - 0.8) * 100 reaches the floor 30
ReadabilityScore(s) ==
    LET sentences == Sentences(s)
        n  == Len(sentences)
        ls == [i \in 1..n |-> Len(SplitWords(sentences[i]))]
        sm == SumSeq(ls)
        sq == SumSeq([i \in 1..n |-> ls[i] * ls[i]])
        a  == n * sq - sm * sm
        d  == sm * sm
    IN  IF n < 2 THEN 50 * Point
        ELSE IF sm = 0 THEN 30 * Point
        ELSE IF 9 * d <= 100 * a /\ 100 * a <= 64 * d THEN 100 * Point
        ELSE IF 100 * a < 9 * d
             THEN 50 * Point + (CvTenThousandths(a, d) * 166 * Point) \div 10000
        ELSE IF 4 * a >= 9 * d THEN 30 * Point
        ELSE Max(100 * Point - ((CvTenThousandths(a, d) - 8000) * 100 * Point) \div 10000,
                 30 * Point)

\* re.search(r"\d+[,.]?\d*\s*(customers|users|people|businesses|brands)", s)
ProofCount(s) ==
    \E i \in 1..Len(s) :
        /\ s[i] \in Digits
        /\ LET a == RunEnd(s, i, Digits)
               c == RunEnd(s, a, Whitespace)
               d == RunEnd(s, RunEnd(s, a + 1, Digits), Whitespace)
           IN  \E w \in PROOF_NOUNS :
                   \/ HasPrefixAt(s, c, w)
                   \/ (a <= Len(s) /\ s[a] \in {",", "."} /\ HasPrefixAt(s, d, w))

\* re.search(r"\d+\s*stars?", s)
ProofStars(s) ==
    \E i \in 1..Len(s) :
        /\ s[i] \in Digits
        /\ HasPrefixAt(s, RunEnd(s, RunEnd(s, i, Digits), Whitespace), <<"s","t","a","r">>)

\* re.search(r"best[\s-]selling", s)
ProofBestSelling(s) ==
    \E i \in 1..Len(s) :
        /\ HasPrefixAt(s, i, <<"b","e","s","t">>)
        /\ i + 4 <= Len(s)
        /\ s[i + 4] \in Whitespace \cup {"-"}
        /\ HasPrefixAt(s, i + 5, <<"s","e","l","l","i","n","g">>)

\* which of the SOCIAL_PROOF_PATTERNS are found, in the order of the list
SOCIAL_PROOF_PATTERNS(s) ==
    << ProofCount(s), Contains(s, <<"t","r","u","s","t","e","d"," ","b","y">>), Contains(s, <<"a","s"," ","s","e","e","n">>),
       Contains(s, <<"r","a","t","e","d">>), ProofStars(s), Contains(s, <<"#","1">>), ProofBestSelling(s) >>

\* SocialProofScore without the upper limit of 100
SocialProofScoreUncapped(textLower) ==
    LET found == SOCIAL_PROOF_PATTERNS(textLower)
        matches == Cardinality({i \in 1..Len(found) : found[i]})
    IN  matches * 40 * Point

\* _social_proof_score
SocialProofScore(textLower) ==
    LET found == SOCIAL_PROOF_PATTERNS(textLower)
        matches == Cardinality({i \in 1..Len(found) : found[i]})
    IN  Min(matches * 40 * Point, 100 * Point)

-----------------------------------------------------------------------------
(* scoring.py: PersuasionScorer.score                                      *)

\* no sub-score has been computed
NoComponents == [c \in ComponentNames |-> -1]

\* the components dict
Components(copyText, p) ==
    LET textLower == Lower(copyText)
        words == SplitWords(textLower)
    IN  [cta          |-> CtaScore(textLower),
         power_words  |-> KeywordDensityScore(words, POWER_WORDS),
         emotional    |-> KeywordDensityScore(words, EMOTIONAL_WORDS),
         urgency      |-> KeywordDensityScore(words, URGENCY_WORDS),
         length       |-> LengthScore(Len(copyText), p),
         readability  |-> ReadabilityScore(copyText),
         social_proof |-> SocialProofScore(textLower)]

\* raw = sum(components[k] * weights[k] for k in weights), in units of
\* 1/(100 * Point) of a point
WeightedSum(c) ==
    c.cta * Weights.cta + c.power_words * Weights.power_words
    + c.emotional * Weights.emotional + c.urgency * Weights.urgency
    + c.length * Weights.length + c.readability * Weights.readability
    + c.social_proof * Weights.social_proof

\* round(x, 1) of x in units of 1/(100 * Point): the result in tenths (a tie,
\* which the floating-point sum settles by its own rounding error, goes up)
Round1(x) == (x + 5 * Point) \div (10 * Point)

\* FinalScore with the division after rounding left out: round(x * 10)
FinalScoreTimesTen(rawSum) == Round1(Min(Max(rawSum, 0), 100 * 100 * Point) * 10)

\* round(min(max(raw, 0), 100), 1), in tenths of a point
FinalScore(rawSum) == Round1(Min(Max(rawSum, 0), 100 * 100 * Point))

\* IsEmptyText without the short-circuit
IsEmptyTextNever(words) == FALSE

\* word_count == 0
IsEmptyText(words) == Len(words) = 0

\* score(copy_text, platform), in tenths of a point
ScoreOf(copyText, p) ==
    IF IsEmptyText(SplitWords(Lower(copyText))) THEN 0
    ELSE FinalScore(WeightedSum(Components(copyText, p)))

-----------------------------------------------------------------------------
(* openai_client.py: generate_copy_variations, and views.py                *)

\* how a call ends: with a value or with an exception
Returned(v) == [kind |-> "returned", value |-> v]
Raised(exc) == [kind |-> "raised", exc |-> exc]

\* _score_variations(copies, platform)
ScoreVariations(copies, p) ==
    [i \in 1..Len(copies) |->
        [copy |-> copies[i], persuasion_score |-> ScoreOf(copies[i], p)]]

\* response.choices[0].message.content or "", of a content that is a str or None
ContentOrEmpty(content) == IF Truthy(content) THEN content.s ELSE <<>>

\* the exceptions of the openai package that the provider call raises, and
\* the classes each is an instance of
ProviderErrors == {"RateLimitError", "APITimeoutError", "APIConnectionError", "APIStatusError"}
ClassesOf(exc) ==
    IF exc = "RateLimitError" THEN {"RateLimitError", "APIStatusError", "APIError"}
    ELSE IF exc = "APITimeoutError" THEN {"APITimeoutError", "APIConnectionError", "APIError"}
    ELSE IF exc \in {"APIConnectionError", "APIStatusError"} THEN {exc, "APIError"}
    ELSE {exc}

\* ErrorCode with the except clauses in the other order
ErrorCodeGenericFirst(exc) ==
    IF ClassesOf(exc) \cap {"APITimeoutError", "APIError"} # {} THEN "ai_service_error"
    ELSE IF "RateLimitError" \in ClassesOf(exc) THEN "ai_rate_limit"
    ELSE "none"

\* the except clauses of post: the error code of the first clause that
\* catches exc, "none" if no clause does
ErrorCode(exc) ==
    IF "RateLimitError" \in ClassesOf(exc) THEN "ai_rate_limit"
    ELSE IF ClassesOf(exc) \cap {"APITimeoutError", "APIError"} # {} THEN "ai_service_error"
    ELSE "none"

-----------------------------------------------------------------------------
(* prompt_engine.py                                                        *)

\* the em dash of the TONE line is the one character "U+2014"
PLATFORM_GUIDELINES ==
    (<<"i","n","s","t","a","g","r","a","m">> :>
        <<"M","a","x"," ","2","2","0","0"," ","c","h","a","r","a","c","t","e","r","s","."," ","L","e","a","d"," ","w","i","t","h"," ","a"," ","h","o","o","k"," ","i","n"," ","t","h","e"," ","f","i","r","s","t"," ","l","i","n","e","."," ","U","s","e"," ","l","i","n","e"," ","b","r","e","a","k","s"," ","f","o","r"," ","r","e","a","d","a","b","i","l","i","t","y","."," ","I","n","c","l","u","d","e"," ","2","-","3"," ","r","e","l","e","v","a","n","t"," ","h","a","s","h","t","a","g"," ","s","u","g","g","e","s","t","i","o","n","s","."," ","E","m","o","j","i","s"," ","a","r","e"," ","a","c","c","e","p","t","a","b","l","e"," ","i","f"," ","t","h","e","y"," ","m","a","t","c","h"," ","t","h","e"," ","t","o","n","e",".">>)
    @@
    (<<"l","i","n","k","e","d","i","n">> :>
        <<"P","r","o","f","e","s","s","i","o","n","a","l"," ","r","e","g","i","s","t","e","r","."," ","O","p","e","n"," ","w","i","t","h"," ","a"," ","b","o","l","d"," ","s","t","a","t","e","m","e","n","t"," ","o","r"," ","s","t","a","t","i","s","t","i","c","."," ","K","e","e","p"," ","p","a","r","a","g","r","a","p","h","s"," ","t","o"," ","1","-","2"," ","s","e","n","t","e","n","c","e","s","."," ","E","n","d"," ","w","i","t","h"," ","a"," ","c","l","e","a","r"," ","C","T","A"," ","o","r"," ","q","u","e","s","t","i","o","n"," ","t","o"," ","d","r","i","v","e"," ","e","n","g","a","g","e","m","e","n","t","."," ","N","o"," ","h","a","s","h","t","a","g","s"," ","i","n"," ","t","h","e"," ","b","o","d","y",";"," ","s","u","g","g","e","s","t"," ","3"," ","a","t"," ","t","h","e"," ","e","n","d",".">>)
    @@
    (<<"g","o","o","g","l","e","_","a","d">> :>
        <<"H","e","a","d","l","i","n","e",":"," ","m","a","x"," ","3","0"," ","c","h","a","r","a","c","t","e","r","s","."," ","D","e","s","c","r","i","p","t","i","o","n"," ","l","i","n","e"," ","1",":"," ","m","a","x"," ","9","0"," ","c","h","a","r","a","c","t","e","r","s","."," ","D","e","s","c","r","i","p","t","i","o","n"," ","l","i","n","e"," ","2",":"," ","m","a","x"," ","9","0"," ","c","h","a","r","a","c","t","e","r","s","."," ","B","e"," ","e","x","t","r","e","m","e","l","y"," ","c","o","n","c","i","s","e","."," ","I","n","c","l","u","d","e"," ","t","h","e"," ","p","r","i","m","a","r","y"," ","k","e","y","w","o","r","d"," ","n","a","t","u","r","a","l","l","y","."," ","S","t","r","o","n","g"," ","C","T","A"," ","v","e","r","b"," ","r","e","q","u","i","r","e","d",".">>)
    @@
    (<<"e","m","a","i","l","_","s","u","b","j","e","c","t">> :>
        <<"M","a","x"," ","6","0"," ","c","h","a","r","a","c","t","e","r","s"," ","i","n","c","l","u","d","i","n","g"," ","s","p","a","c","e","s","."," ","C","r","e","a","t","e"," ","c","u","r","i","o","s","i","t","y"," ","o","r"," ","u","r","g","e","n","c","y","."," ","A","v","o","i","d"," ","s","p","a","m","-","t","r","i","g","g","e","r"," ","w","o","r","d","s"," ","(","f","r","e","e",","," ","g","u","a","r","a","n","t","e","e",","," ","a","c","t"," ","n","o","w",")","."," ","P","e","r","s","o","n","a","l","i","z","a","t","i","o","n"," ","t","o","k","e","n","s"," ","l","i","k","e"," ","{","f","i","r","s","t","_","n","a","m","e","}"," ","a","r","e"," ","a","l","l","o","w","e","d",".">>)
    @@
    (<<"f","a","c","e","b","o","o","k">> :>
        <<"O","p","t","i","m","a","l"," ","l","e","n","g","t","h",":"," ","4","0","-","8","0"," ","c","h","a","r","a","c","t","e","r","s"," ","f","o","r"," ","h","i","g","h","e","s","t"," ","e","n","g","a","g","e","m","e","n","t","."," ","C","o","n","v","e","r","s","a","t","i","o","n","a","l"," ","t","o","n","e","."," ","A","s","k"," ","q","u","e","s","t","i","o","n","s"," ","t","o"," ","b","o","o","s","t"," ","c","o","m","m","e","n","t","s","."," ","I","n","c","l","u","d","e"," ","a"," ","c","l","e","a","r"," ","C","T","A"," ","l","i","n","k","i","n","g"," ","t","o"," ","t","h","e"," ","n","e","x","t"," ","s","t","e","p",".">>)
    @@
    (<<"t","w","i","t","t","e","r">> :>
        <<"M","a","x"," ","2","8","0"," ","c","h","a","r","a","c","t","e","r","s","."," ","P","u","n","c","h","y"," ","a","n","d"," ","d","i","r","e","c","t","."," ","O","n","e"," ","c","o","r","e"," ","i","d","e","a"," ","p","e","r"," ","t","w","e","e","t","."," ","C","T","A"," ","o","r"," ","h","o","o","k"," ","a","t"," ","t","h","e"," ","s","t","a","r","t",".">>)

TONE_MODIFIERS ==
    (<<"p","r","o","f","e","s","s","i","o","n","a","l">> :>
        <<"U","s","e"," ","a"," ","p","o","l","i","s","h","e","d",","," ","a","u","t","h","o","r","i","t","a","t","i","v","e"," ","v","o","i","c","e","."," ","A","v","o","i","d"," ","s","l","a","n","g","."," ","L","e","a","d"," ","w","i","t","h"," ","v","a","l","u","e"," ","p","r","o","p","o","s","i","t","i","o","n","s",".">>)
    @@
    (<<"c","a","s","u","a","l">> :>
        <<"W","r","i","t","e"," ","l","i","k","e"," ","a"," ","s","m","a","r","t"," ","f","r","i","e","n","d"," ","r","e","c","o","m","m","e","n","d","i","n","g"," ","s","o","m","e","t","h","i","n","g","."," ","C","o","n","t","r","a","c","t","i","o","n","s"," ","a","r","e"," ","f","i","n","e","."," ","B","e"," ","w","a","r","m",".">>)
    @@
    (<<"u","r","g","e","n","t">> :>
        <<"C","r","e","a","t","e"," ","g","e","n","u","i","n","e"," ","u","r","g","e","n","c","y"," ","w","i","t","h","o","u","t"," ","b","e","i","n","g"," ","m","a","n","i","p","u","l","a","t","i","v","e","."," ","U","s","e"," ","t","i","m","e","-","s","e","n","s","i","t","i","v","e"," ","l","a","n","g","u","a","g","e"," ","a","n","d"," ","s","c","a","r","c","i","t","y"," ","c","u","e","s",".">>)
    @@
    (<<"w","i","t","t","y">> :>
        <<"B","e"," ","c","l","e","v","e","r"," ","a","n","d"," ","m","e","m","o","r","a","b","l","e","."," ","U","s","e"," ","w","o","r","d","p","l","a","y"," ","w","h","e","r","e"," ","n","a","t","u","r","a","l","."," ","N","e","v","e","r"," ","f","o","r","c","e"," ","h","u","m","o","r",".">>)
    @@
    (<<"i","n","s","p","i","r","a","t","i","o","n","a","l">> :>
        <<"E","l","e","v","a","t","e"," ","t","h","e"," ","r","e","a","d","e","r","."," ","P","a","i","n","t"," ","a"," ","v","i","s","i","o","n"," ","o","f"," ","t","r","a","n","s","f","o","r","m","a","t","i","o","n","."," ","U","s","e"," ","a","s","p","i","r","a","t","i","o","n","a","l"," ","l","a","n","g","u","a","g","e",".">>)

\* the default of PLATFORM_GUIDELINES.get(platform, ...)
DefaultPlatformGuide == <<"F","o","l","l","o","w"," ","g","e","n","e","r","a","l"," ","b","e","s","t"," ","p","r","a","c","t","i","c","e","s",".">>
\* the default of TONE_MODIFIERS.get(tone, "")
DefaultToneGuide == <<>>

\* GetFirst: the entry of the first key of the table, whatever the key asked
GetFirst(table, key, default) == table[CHOOSE k \in DOMAIN table : TRUE]

\* table.get(key, default) of a dict with str keys
Get(table, key, default) == IF key \in DOMAIN table THEN table[key] ELSE default

\* the last line of the prompt
Directive == <<"G","e","n","e","r","a","t","e"," ","3"," ","h","i","g","h","-","c","o","n","v","e","r","t","i","n","g"," ","c","o","p","y"," ","v","a","r","i","a","t","i","o","n","s"," ","n","o","w",".">>

\* FormatPrompt with the DESCRIPTION and TARGET AUDIENCE lines exchanged
FormatPromptExchanged(name, description, audience, t, p, toneGuide, platformGuide) ==
    <<"P","R","O","D","U","C","T",":"," ">> \o name \o <<"\n">>
    \o <<"T","A","R","G","E","T"," ","A","U","D","I","E","N","C","E",":"," ">> \o audience \o <<"\n">>
    \o <<"D","E","S","C","R","I","P","T","I","O","N",":"," ">> \o description \o <<"\n">>
    \o <<"T","O","N","E",":"," ">> \o t \o <<" ","U+2014"," ">> \o toneGuide \o <<"\n">>
    \o <<"P","L","A","T","F","O","R","M",":"," ">> \o p \o <<"\n">>
    \o <<"P","L","A","T","F","O","R","M"," ","G","U","I","D","E","L","I","N","E","S",":"," ">> \o platformGuide \o <<"\n","\n">>
    \o Directive

\* the f-string returned by build_user_prompt
FormatPrompt(name, description, audience, t, p, toneGuide, platformGuide) ==
    <<"P","R","O","D","U","C","T",":"," ">> \o name \o <<"\n">>
    \o <<"D","E","S","C","R","I","P","T","I","O","N",":"," ">> \o description \o <<"\n">>
    \o <<"T","A","R","G","E","T"," ","A","U","D","I","E","N","C","E",":"," ">> \o audience \o <<"\n">>
    \o <<"T","O","N","E",":"," ">> \o t \o <<" ","U+2014"," ">> \o toneGuide \o <<"\n">>
    \o <<"P","L","A","T","F","O","R","M",":"," ">> \o p \o <<"\n">>
    \o <<"P","L","A","T","F","O","R","M"," ","G","U","I","D","E","L","I","N","E","S",":"," ">> \o platformGuide \o <<"\n","\n">>
    \o Directive

-----------------------------------------------------------------------------
(* The model outputs handed to _parse_variations                           *)

\* all sequences over S of length at most n
SeqsUpTo(S, n) == UNION {[1..k -> S] : k \in 0..n}

Quoted(s) == <<"\"">> \o s \o <<"\"">>
ArrayText(elts) == <<"[">> \o Join(elts, <<",">>) \o <<"]">>
MemberText(k, v) == Quoted(k) \o <<":">> \o v
ObjectText(members) == <<"{">> \o Join(members, <<",">>) \o <<"}">>

\* items of the long generated lists
ItemPool == {
    Quoted(<<"a">>), Quoted(<<"b">>), Quoted(<<>>),
    ObjectText(<<MemberText(KeyCopy, Quoted(<<"x">>))>>),
    ObjectText(<<MemberText(KeyCopy, Quoted(<<"y">>))>>) }

\* further items, used in lists of at most two
WidePool == ItemPool \cup {
    ObjectText(<<MemberText(KeyText, Quoted(<<"t">>))>>),
    ObjectText(<<MemberText(KeyContent, Quoted(<<"c">>))>>),
    ObjectText(<<MemberText(KeyCopy, Quoted(<<>>)), MemberText(KeyText, Quoted(<<"t">>))>>),
    ObjectText(<<MemberText(KeyCopy, <<"7">>)>>),
    ObjectText(<<MemberText(KeyCopy, <<"t","r","u","e">>)>>),
    ObjectText(<<MemberText(KeyCopy, <<"n","u","l","l">>)>>),
    ObjectText(<<MemberText(KeyCopy, <<"[","\"","n","\"",","," ","1","]">>)>>),
    ObjectText(<<MemberText(<<"i","d">>, <<"1">>)>>),
    Quoted(<<"\\","\"">>), Quoted(<<" ">>),
    <<"5">>, <<"n","u","l","l">>, <<"[","\"","n","\"","]">> }

\* values that are not lists
ScalarPool == {
    <<"5">>, <<"0">>, <<"-","2">>, <<"1",".","5">>, <<"t","r","u","e">>, <<"f","a","l","s","e">>, <<"n","u","l","l">>,
    Quoted(<<"a","b","c">>), Quoted(<<>>), <<"{","}">>, <<"{","\"","k","\"",":","1","}">> }

LongLists  == {ArrayText(xs) : xs \in SeqsUpTo(ItemPool, MaxItems)}
ShortLists == {ArrayText(xs) : xs \in SeqsUpTo(WidePool, 2)}

\* objects with one key
OneKeyObjects ==
    {ObjectText(<<MemberText(KeyVariations, v)>>) : v \in LongLists \cup ShortLists \cup ScalarPool}
    \cup {ObjectText(<<MemberText(k, v)>>) :
            k \in {KeyCopies, <<"a","d","s">>}, v \in ShortLists \cup ScalarPool}

\* objects with two keys
TwoKeyValues == {<<"[","]">>, <<"[","\"","p","\"","]">>, <<"[","{","\"","c","o","p","y","\"",":","\"","q","\"","}","]">>, <<"n","u","l","l">>, <<"0">>, <<"3">>, Quoted(<<"s">>)}
TwoKeyObjects ==
    {ObjectText(<<MemberText(k1, v1), MemberText(k2, v2)>>) :
        k1 \in {KeyVariations, KeyCopies, <<"n">>}, k2 \in {KeyVariations, KeyCopies, <<"m">>},
        v1 \in TwoKeyValues, v2 \in TwoKeyValues}

\* JSON with whitespace between tokens, and almost-JSON
OtherJson == {
    <<" ","["," ","\"","a","\""," ",","," ","\"","b","\""," ","]","\n">>, <<"{"," ","\"","v","a","r","i","a","t","i","o","n","s","\""," ",":"," ","["," ","{"," ","\"","c","o","p","y","\""," ",":"," ","\"","x","\""," ","}"," ","]"," ","}">>,
    <<"[","\"","a","\"",",","]">>, <<"[","\"","a","\""," ","\"","b","\"","]">>, <<"[","\"","a","\"","]">> \o <<" ","x">>, <<"{","\"","v","a","r","i","a","t","i","o","n","s","\"",":","[","\"","a","\"","]">>,
    <<"{","v","a","r","i","a","t","i","o","n","s",":","[","\"","a","\"","]","}">>, <<"[","\"","a","\n","b","\"","]">>, <<"0","1">>, <<"-">>, <<"t","r","u">>, <<"1",".">>, <<"1","e","5">> }

\* the characters of free-form text
FreeAlphabet == {"a", " ", "\n", "\"", "1", "."}
FreeTexts == SeqsUpTo(FreeAlphabet, MaxRawLen)

\* k numbered lines  1. a / 2) a / 1. "a" ..., with or without a leading newline
NumberedLine(n, mark, body) == NatText(n) \o <<mark, " ">> \o body
NumberedTexts ==
    {lead \o Join([n \in 1..k |-> NumberedLine(n, mark, body)], <<"\n">>) :
        k \in 1..MaxItems, mark \in {".", ")"},
        body \in {<<"a">>, Quoted(<<"a">>), <<"a"," ","b">>}, lead \in {<<>>, <<"\n">>}}
    \cup {<<"H","e","r","e"," ","y","o","u"," ","g","o",":","\n","1","."," ","a","\n","2","."," ","b">>, <<"\n","1","."," ","\n","2","."," ","x">>, <<"\n","1",".","\n","2",".">>, <<"\n","1","0",")"," ","a","\n","1","1",")"," ","b">>}

RawInputs ==
    LongLists \cup ShortLists \cup ScalarPool \cup OneKeyObjects \cup TwoKeyObjects
    \cup OtherJson \cup FreeTexts \cup NumberedTexts

-----------------------------------------------------------------------------
(* _parse_variations as a state machine                                    *)

\* generate_copy_variations has not been called / post has not answered
NoResult == [kind |-> "none"]
NoResponse == [status |-> 0, error |-> "none"]

ParseIdle ==
    /\ raw = <<>>
    /\ pc = "idle"
    /\ data = NoValue
    /\ items = NoValue
    /\ result = <<>>
    /\ outcome = "none"

ScoreIdle ==
    /\ text = <<>>
    /\ platform = "none"
    /\ spc = "idle"
    /\ components = NoComponents
    /\ score = 0

DensityIdle ==
    /\ dWords = <<>>
    /\ dHits = 0
    /\ dScore = 0

PromptIdle ==
    /\ product_name = <<>>
    /\ product_description = <<>>
    /\ target_audience = <<>>
    /\ tone = <<>>
    /\ prompt_platform = <<>>
    /\ platform_guide = <<>>
    /\ tone_guide = <<>>
    /\ user_prompt = <<>>
    /\ ppc = "idle"

LengthIdle ==
    /\ char_count = 0
    /\ length_platform = "none"
    /\ length_score = 0
    /\ lpc = "idle"

PostIdle ==
    /\ request = 0
    /\ req_platform = "none"
    /\ vpc = "idle"
    /\ raw_content = <<>>
    /\ variations = <<>>
    /\ gen_result = NoResult
    /\ records = <<>>
    /\ response = NoResponse

Init ==
    /\ raw \in RawInputs
    /\ pc = "start"
    /\ data = NoValue
    /\ items = NoValue
    /\ result = <<>>
    /\ outcome = "none"
    /\ ScoreIdle
    /\ DensityIdle
    /\ PromptIdle
    /\ LengthIdle
    /\ PostIdle

\* try: data = json.loads(raw)  except JSONDecodeError: return _fallback_extract(raw)
Decode ==
    /\ pc = "start"
    /\ LET r == JsonLoads(raw)
       IN  IF r.ok THEN data' = r.val /\ pc' = "select"
           ELSE data' = data /\ pc' = "fallback"
    /\ UNCHANGED <<raw, items, result, outcome>>
    /\ UNCHANGED <<scoreVars, densityVars, promptVars, lengthVars, postVars>>

\* the isinstance chain that picks items
Select ==
    /\ pc = "select"
    /\ IF data.t = "list" THEN items' = data /\ pc' = "collect"
       ELSE IF data.t = "dict" THEN items' = SelectItems(data) /\ pc' = "collect"
       ELSE items' = items /\ pc' = "fallback"
    /\ UNCHANGED <<raw, data, result, outcome>>
    /\ UNCHANGED <<scoreVars, densityVars, promptVars, lengthVars, postVars>>

\* the loop over items and the return of copies[:3]; iterating a value that
\* is not iterable raises TypeError out of _parse_variations
Collect ==
    /\ pc = "collect"
    /\ IF ~Iterable(items)
       THEN pc' = "done" /\ outcome' = "raised" /\ result' = result
       ELSE LET copies == CollectCopies(Iterate(items))
            IN  IF copies = <<>>
                THEN pc' = "fallback" /\ outcome' = outcome /\ result' = result
                ELSE pc' = "done" /\ outcome' = "returned"
                     /\ result' = TruncateCopies(copies)
    /\ UNCHANGED <<raw, data, items>>
    /\ UNCHANGED <<scoreVars, densityVars, promptVars, lengthVars, postVars>>

\* return _fallback_extract(raw)
Fallback ==
    /\ pc = "fallback"
    /\ result' = FallbackExtract(raw)
    /\ outcome' = "returned"
    /\ pc' = "done"
    /\ UNCHANGED <<raw, data, items>>
    /\ UNCHANGED <<scoreVars, densityVars, promptVars, lengthVars, postVars>>

Next == Decode \/ Select \/ Collect \/ Fallback

Spec == Init /\ [][Next]_vars

-----------------------------------------------------------------------------
(* The texts handed to PersuasionScorer.score                              *)

Fragments == {
    <<"B","u","y"," ","n","o","w","!"," ">>, <<"S","h","o","p"," ","n","o","w","."," ">>, <<"F","r","e","e"," ">>, <<"l","o","v","e"," ">>, <<"n","o","w",","," ">>,
    <<"t","r","u","s","t","e","d"," ","b","y"," ">>, <<"1","0"," ","u","s","e","r","s","."," ">>, <<"c","l","i","c","k"," ">> }

\* s * n
Repeat(s, n) == [i \in 1..(n * Len(s)) |-> s[((i - 1) % Len(s)) + 1]]

\* how many filler words follow the fragments
FillerSizes == {0, 20}
\* the filler words of a long text (over 100 words)
LongFiller == Repeat(<<"o","k"," ">>, 105)

BuyNowText == <<"B","u","y"," ","n","o","w","!"," ","B","u","y"," ","n","o","w","!"," ","L","i","m","i","t","e","d"," ","t","i","m","e",","," ","t","r","u","s","t","e","d"," ","b","y"," ","1","0",",","0","0","0"," ","c","u","s","t","o","m","e","r","s",".">>

SpecialTexts == {
    BuyNowText,
    <<"B","u","y"," ","n","o","w","!"," ","G","e","t"," ","i","t"," ","f","o","r"," ","f","r","e","e",".">>,
    <<"T","r","u","s","t","e","d"," ","b","y"," ","1","0"," ","u","s","e","r","s",","," ","r","a","t","e","d"," ","5"," ","s","t","a","r","s",","," ","t","h","e"," ","#","1"," ","b","e","s","t","-","s","e","l","l","i","n","g"," ","a","p","p","."," ","A","s"," ","s","e","e","n"," ","o","n"," ","T","V","!">>,
    <<"J","o","i","n"," ","2",",","5","0","0"," ","b","u","s","i","n","e","s","s","e","s"," ","t","o","d","a","y","."," ","S","i","g","n"," ","u","p"," ","a","n","d"," ","u","n","l","o","c","k"," ","i","t"," ","a","l","l","."," ","H","u","r","r","y","?">>,
    <<"\t","\n">>, <<" ">>, <<" ","a"," ">>,
    <<".",".",".">>,
    <<"E","x","p","l","o","r","e","."," ","S","e","e","n"," ","i","t","?"," ","U","n","c","l","i","c","k","!"," ","B","e","s","t","-","s","e","l","l","i","n","g"," ","(","n","e","w",")"," ","\"","l","o","v","e","\"","."," ","O","n","l","y"," ","3","s","t","a","r","s">> }

ScoreTexts ==
    {Flatten(fs) \o Repeat(<<"o","k"," ">>, n) : fs \in SeqsUpTo(Fragments, MaxFrags), n \in FillerSizes}
    \cup {f \o LongFiller : f \in Fragments}
    \cup SpecialTexts

\* the six platforms of the table and one that is not in it
PlatformKeys == DOMAIN OPTIMAL_LENGTHS \cup {"tiktok"}

-----------------------------------------------------------------------------
(* PersuasionScorer.score as a state machine                               *)

InitScore ==
    /\ text \in ScoreTexts
    /\ platform \in PlatformKeys
    /\ spc = "start"
    /\ components = NoComponents
    /\ score = 0
    /\ ParseIdle
    /\ DensityIdle
    /\ PromptIdle
    /\ LengthIdle
    /\ PostIdle

\* words = text_lower.split(); if word_count == 0: return 0.0
ScoreEntry ==
    /\ spc = "start"
    /\ IF IsEmptyText(SplitWords(Lower(text)))
       THEN score' = 0 /\ spc' = "done"
       ELSE score' = score /\ spc' = "components"
    /\ UNCHANGED <<text, platform, components>>
    /\ UNCHANGED <<parseVars, densityVars, promptVars, lengthVars, postVars>>

\* components = {...}
ScoreComponents ==
    /\ spc = "components"
    /\ components' = Components(text, platform)
    /\ spc' = "combine"
    /\ UNCHANGED <<text, platform, score>>
    /\ UNCHANGED <<parseVars, densityVars, promptVars, lengthVars, postVars>>

\* raw = sum(...); return round(min(max(raw, 0), 100), 1)
ScoreCombine ==
    /\ spc = "combine"
    /\ score' = FinalScore(WeightedSum(components))
    /\ spc' = "done"
    /\ UNCHANGED <<text, platform, components>>
    /\ UNCHANGED <<parseVars, densityVars, promptVars, lengthVars, postVars>>

NextScore == ScoreEntry \/ ScoreComponents \/ ScoreCombine

SpecScore == InitScore /\ [][NextScore]_vars

-----------------------------------------------------------------------------
(* _keyword_density_score over word lists of a fixed length                *)

\* n words of which the first h are the power word "free" (with punctuation)
WordList(n, h) == [i \in 1..n |-> IF i <= h THEN <<"f","r","e","e","!">> ELSE <<"o","k">>]

InitDensity ==
    /\ \E n \in 1..MaxWords : dWords = WordList(n, 0)
    /\ dHits = 0
    /\ dScore = KeywordDensityScore(dWords, POWER_WORDS)
    /\ ParseIdle
    /\ ScoreIdle
    /\ PromptIdle
    /\ LengthIdle
    /\ PostIdle

\* one more of the words is a keyword; the list is scored again
AddHit ==
    /\ dHits < Len(dWords)
    /\ dHits' = dHits + 1
    /\ dWords' = WordList(Len(dWords), dHits + 1)
    /\ dScore' = KeywordDensityScore(dWords', POWER_WORDS)
    /\ UNCHANGED <<parseVars, scoreVars, promptVars, lengthVars, postVars>>

NextDensity == AddHit

SpecDensity == InitDensity /\ [][NextDensity]_vars

-----------------------------------------------------------------------------
(* PromptEngine.build_user_prompt as a state machine                       *)

\* request fields; some hold the text of a label of the prompt
ProductNames == {<<"M","u","g">>, <<"A","\n","T","O","N","E",":"," ","b">>, <<>>}
Descriptions == {<<"K","e","e","p","s"," ","t","e","a"," ","h","o","t">>, <<"P","R","O","D","U","C","T",":"," ","M","u","g">>}
Audiences == {<<"H","i","k","e","r","s">>, <<"P","L","A","T","F","O","R","M",":"," ","x","\n">>}
\* the keys of the tables and keys that are not in them
ToneKeys == DOMAIN TONE_MODIFIERS \cup {<<"s","a","r","c","a","s","t","i","c">>, <<"C","a","s","u","a","l">>, <<>>}
PromptPlatformKeys == DOMAIN PLATFORM_GUIDELINES \cup {<<"t","i","k","t","o","k">>, <<"T","w","i","t","t","e","r">>, <<>>}

InitPrompt ==
    /\ product_name \in ProductNames
    /\ product_description \in Descriptions
    /\ target_audience \in Audiences
    /\ tone \in ToneKeys
    /\ prompt_platform \in PromptPlatformKeys
    /\ platform_guide = <<>>
    /\ tone_guide = <<>>
    /\ user_prompt = <<>>
    /\ ppc = "start"
    /\ ParseIdle
    /\ ScoreIdle
    /\ DensityIdle
    /\ LengthIdle
    /\ PostIdle

\* platform_guide = PLATFORM_GUIDELINES.get(...); tone_guide = TONE_MODIFIERS.get(...)
PromptLookup ==
    /\ ppc = "start"
    /\ platform_guide' = Get(PLATFORM_GUIDELINES, prompt_platform, DefaultPlatformGuide)
    /\ tone_guide' = Get(TONE_MODIFIERS, tone, DefaultToneGuide)
    /\ ppc' = "format"
    /\ UNCHANGED <<product_name, product_description, target_audience, tone, prompt_platform,
                   user_prompt>>
    /\ UNCHANGED <<parseVars, scoreVars, densityVars, lengthVars, postVars>>

\* return (f"PRODUCT: ..." ...)
PromptFormat ==
    /\ ppc = "format"
    /\ user_prompt' = FormatPrompt(product_name, product_description, target_audience, tone,
                                   prompt_platform, tone_guide, platform_guide)
    /\ ppc' = "done"
    /\ UNCHANGED <<product_name, product_description, target_audience, tone, prompt_platform,
                   platform_guide, tone_guide>>
    /\ UNCHANGED <<parseVars, scoreVars, densityVars, lengthVars, postVars>>

NextPrompt == PromptLookup \/ PromptFormat

SpecPrompt == InitPrompt /\ [][NextPrompt]_vars

-----------------------------------------------------------------------------
(* PersuasionScorer._length_score over every character count               *)

InitLength ==
    /\ char_count \in 0..MaxChars
    /\ length_platform \in PlatformKeys
    /\ length_score = 0
    /\ lpc = "start"
    /\ ParseIdle
    /\ ScoreIdle
    /\ DensityIdle
    /\ PromptIdle
    /\ PostIdle

\* the call _length_score(char_count, platform)
LengthCall ==
    /\ lpc = "start"
    /\ length_score' = LengthScore(char_count, length_platform)
    /\ lpc' = "done"
    /\ UNCHANGED <<char_count, length_platform>>
    /\ UNCHANGED <<parseVars, scoreVars, densityVars, promptVars, postVars>>

NextLength == LengthCall

SpecLength == InitLength /\ [][NextLength]_vars

-----------------------------------------------------------------------------
(* GenerateCopyView.post with generate_copy_variations as a state machine  *)

\* lists of exactly MaxItems items, strings and objects with a "copy"
FullLists ==
    {ArrayText(xs) : xs \in [1..MaxItems ->
        {Quoted(<<"B","u","y"," ","n","o","w","!">>), ObjectText(<<MemberText(KeyCopy, Quoted(<<"x">>))>>)}]}

\* the texts the provider answers with
PostTexts ==
    FullLists \cup ShortLists \cup ScalarPool \cup TwoKeyObjects \cup OtherJson
    \cup NumberedTexts \cup SeqsUpTo(FreeAlphabet, 2)
    \cup {ObjectText(<<MemberText(k, v)>>) :
            k \in {KeyVariations, KeyCopies, <<"a","d","s">>}, v \in ShortLists \cup ScalarPool}

\* message.content of the provider's response: a str or None
ProviderContents == {JStr(c) : c \in PostTexts} \cup {JNull}

\* data["platform"] of the requests: a platform with a short and one with a
\* long optimal range
PostPlatforms == {"email_subject", "instagram"}

\* the request whose number is `request` arrives; the requests before it were
\* answered with 201 and have their rows
InitPost ==
    /\ request \in 1..MaxRequests
    /\ req_platform \in PostPlatforms
    /\ vpc = "start"
    /\ raw_content = <<>>
    /\ variations = <<>>
    /\ gen_result = NoResult
    /\ records = [i \in 1..(request - 1) |-> i]
    /\ response = NoResponse
    /\ ParseIdle
    /\ ScoreIdle
    /\ DensityIdle
    /\ PromptIdle
    /\ LengthIdle

\* serializer.is_valid(raise_exception=True) raises ValidationError
RejectRequest ==
    /\ vpc = "start"
    /\ response' = [status |-> 400, error |-> "validation_error"]
    /\ vpc' = "done"
    /\ UNCHANGED <<request, req_platform, raw_content, variations, gen_result, records>>
    /\ UNCHANGED <<parseVars, scoreVars, densityVars, promptVars, lengthVars>>

\* the request is valid: post calls generate_copy_variations
AcceptRequest ==
    /\ vpc = "start"
    /\ vpc' = "call"
    /\ UNCHANGED <<request, req_platform, raw_content, variations, gen_result, records,
                   response>>
    /\ UNCHANGED <<parseVars, scoreVars, densityVars, promptVars, lengthVars>>

\* client.chat.completions.create raises; generate_copy_variations logs and re-raises
ProviderRaises ==
    /\ vpc = "call"
    /\ \E exc \in ProviderErrors : gen_result' = Raised(exc)
    /\ vpc' = "except"
    /\ UNCHANGED <<request, req_platform, raw_content, variations, records, response>>
    /\ UNCHANGED <<parseVars, scoreVars, densityVars, promptVars, lengthVars>>

\* the provider answers: raw_content = response.choices[0].message.content or "",
\* and _parse_variations(raw_content) is called
ProviderResponds ==
    /\ vpc = "call"
    /\ \E content \in ProviderContents : raw_content' = ContentOrEmpty(content)
    /\ raw' = raw_content'
    /\ pc' = "start"
    /\ vpc' = "parse"
    /\ UNCHANGED <<data, items, result, outcome>>
    /\ UNCHANGED <<request, req_platform, variations, gen_result, records, response>>
    /\ UNCHANGED <<scoreVars, densityVars, promptVars, lengthVars>>

\* _parse_variations has ended: variations is its list, or its exception
\* leaves generate_copy_variations
ParseReturn ==
    /\ vpc = "parse"
    /\ pc = "done"
    /\ IF outcome = "raised"
       THEN gen_result' = Raised("TypeError") /\ variations' = variations /\ vpc' = "except"
       ELSE gen_result' = gen_result /\ variations' = result /\ vpc' = "score"
    /\ UNCHANGED <<request, req_platform, raw_content, records, response>>
    /\ UNCHANGED <<parseVars, scoreVars, densityVars, promptVars, lengthVars>>

\* scored = _score_variations(variations, platform); return {"variations": scored, ...}
ScoreAndReturn ==
    /\ vpc = "score"
    /\ gen_result' = Returned(ScoreVariations(variations, req_platform))
    /\ vpc' = "create"
    /\ UNCHANGED <<request, req_platform, raw_content, variations, records, response>>
    /\ UNCHANGED <<parseVars, scoreVars, densityVars, promptVars, lengthVars>>

\* except RateLimitError / except (APITimeoutError, APIError): return 503
HandleProviderError ==
    /\ vpc = "except"
    /\ ErrorCode(gen_result.exc) # "none"
    /\ response' = [status |-> 503, error |-> ErrorCode(gen_result.exc)]
    /\ vpc' = "done"
    /\ UNCHANGED <<request, req_platform, raw_content, variations, gen_result, records>>
    /\ UNCHANGED <<parseVars, scoreVars, densityVars, promptVars, lengthVars>>

\* no except clause catches the exception: it leaves post, and
\* custom_exception_handler answers 500
UnhandledError ==
    /\ vpc = "except"
    /\ ErrorCode(gen_result.exc) = "none"
    /\ response' = [status |-> 500, error |-> "internal_error"]
    /\ vpc' = "done"
    /\ UNCHANGED <<request, req_platform, raw_content, variations, gen_result, records>>
    /\ UNCHANGED <<parseVars, scoreVars, densityVars, promptVars, lengthVars>>

\* generation = CopyGeneration.objects.create(...)
CreateRecord ==
    /\ vpc = "create"
    /\ records' = Append(records, request)
    /\ vpc' = "respond"
    /\ UNCHANGED <<request, req_platform, raw_content, variations, gen_result, response>>
    /\ UNCHANGED <<parseVars, scoreVars, densityVars, promptVars, lengthVars>>

\* return Response(GenerationResponseSerializer(generation).data, status=201)
Respond201 ==
    /\ vpc = "respond"
    /\ response' = [status |-> 201, error |-> "none"]
    /\ vpc' = "done"
    /\ UNCHANGED <<request, req_platform, raw_content, variations, gen_result, records>>
    /\ UNCHANGED <<parseVars, scoreVars, densityVars, promptVars, lengthVars>>

NextPost ==
    \/ RejectRequest \/ AcceptRequest \/ ProviderRaises \/ ProviderResponds
    \/ Decode \/ Select \/ Collect \/ Fallback \/ ParseReturn
    \/ ScoreAndReturn \/ HandleProviderError \/ UnhandledError \/ CreateRecord
    \/ Respond201

SpecPost == InitPost /\ [][NextPost]_vars

-----------------------------------------------------------------------------
(* Properties of _parse_variations                                         *)

\* whether raw holds a numbered-line boundary  \n\d+[\.\)]\s*
HasBoundary(s) == \E i \in 1..Len(s) : BoundaryEnd(s, i) > 0

\* the texts of a list of str objects
StrTexts(xs) == [i \in 1..Len(xs) |-> xs[i].s]

\* the "copy" texts of a list of dict objects
CopyTexts(xs) == [i \in 1..Len(xs) |-> DictGet(xs[i], KeyCopy, JStr(<<>>)).s]

AllNonEmptyStrings(xs) ==
    \A i \in 1..Len(xs) : xs[i].t = "str" /\ xs[i].s # <<>>

AllWithNonEmptyCopy(xs) ==
    \A i \in 1..Len(xs) :
        /\ xs[i].t = "dict"
        /\ HasKey(xs[i], KeyCopy)
        /\ DictGet(xs[i], KeyCopy, JNull).t = "str"
        /\ DictGet(xs[i], KeyCopy, JNull).s # <<>>

\* C1: whenever _parse_variations returns, the returned list has at most 3
\* entries, on every path.
C1_AtMostThree == outcome = "returned" => Len(result) <= 3

\* a structured input of four items was cut to three
C1_Witness ==
    /\ outcome = "returned"
    /\ data.t = "list"
    /\ Len(data.items) = 4
    /\ AllNonEmptyStrings(data.items)
    /\ Len(result) = 3

\* C2: every entry of the returned list is a non-empty string.
C2_EntriesNonEmpty ==
    outcome = "returned" => \A i \in 1..Len(result) : result[i] # <<>>

\* C3: _parse_variations never raises, whatever the model output.
C3_NeverRaises == outcome # "raised"

\* C4: on the structured path the item texts come back in input order: a JSON
\* array of k >= 1 non-empty strings gives its first min(k,3) strings, and an
\* object whose "variations" is a list of k >= 1 objects with a non-empty
\* string "copy" gives the first min(k,3) copy values.
C4_StructuredOrder ==
    pc = "done" =>
        /\ (data.t = "list" /\ data.items # <<>> /\ AllNonEmptyStrings(data.items))
              => (outcome = "returned" /\ result = Take(StrTexts(data.items), 3))
        /\ (data.t = "dict" /\ HasKey(data, KeyVariations))
              => LET v == DictGet(data, KeyVariations, JNull)
                 IN  (v.t = "list" /\ v.items # <<>> /\ AllWithNonEmptyCopy(v.items))
                        => (outcome = "returned" /\ result = Take(CopyTexts(v.items), 3))

\* ["a","b","a","b"] gave a, b, a
C4_Witness ==
    /\ pc = "done"
    /\ raw = <<"[","\"","a","\"",",","\"","b","\"",",","\"","a","\"",",","\"","b","\"","]">>
    /\ result = <<<<"a">>, <<"b">>, <<"a">>>>

\* C5 as stated: text that is not JSON and has no numbered-line boundary
\* comes back as the one-element list of the text trimmed of whitespace, and
\* empty or whitespace-only text as the one-element list of the placeholder.
C5_TrimmedWhitespaceOnly ==
    (pc = "done" /\ ~JsonLoads(raw).ok /\ ~HasBoundary(raw)) =>
        /\ outcome = "returned"
        /\ result = IF Strip(raw) = <<>> THEN <<Placeholder>> ELSE <<Strip(raw)>>

\* C5 amended: the text is trimmed of whitespace and then of double-quote
\* characters at both ends (the entry may be left empty).
C5_TrimmedWhitespaceAndQuotes ==
    (pc = "done" /\ ~JsonLoads(raw).ok /\ ~HasBoundary(raw)) =>
        /\ outcome = "returned"
        /\ result = IF Strip(raw) = <<>> THEN <<Placeholder>>
                    ELSE <<StripQuote(Strip(raw))>>

\* the text  "a  came back as  a
C5_Witness ==
    /\ pc = "done"
    /\ raw = <<"\"", "a">>
    /\ ~JsonLoads(raw).ok
    /\ result = <<<<"a">>>>

-----------------------------------------------------------------------------
(* Properties of PersuasionScorer                                          *)

\* C6: score(text, platform) is within [0, 100] for every text and every
\* platform key, known or unknown (the score is held in tenths).
C6_ScoreInRange == spc = "done" => (0 <= score /\ score <= 1000)

\* a text of over 300 characters was scored for a platform outside the table
C6_Witness ==
    /\ spc = "done"
    /\ Len(text) > 300
    /\ platform \notin DOMAIN OPTIMAL_LENGTHS
    /\ score > 0

\* C7: a text with zero whitespace-separated words scores exactly 0.0 on any
\* platform and no sub-score is computed.
C7_EmptyTextZero ==
    (spc = "done" /\ SplitWords(Lower(text)) = <<>>) =>
        (score = 0 /\ components = NoComponents)

\* a text of whitespace only was scored
C7_Witness ==
    /\ spc = "done"
    /\ text = <<"\t", "\n">>
    /\ score = 0

\* C8 as stated: for the "Buy now! Buy now! ..." text on instagram the CTA
\* sub-score is 100, the social-proof sub-score is positive and the score is
\* above 60.
C8_BuyNowCta100 ==
    (spc = "done" /\ text = BuyNowText /\ platform = "instagram") =>
        /\ components.cta = 100 * Point
        /\ components.social_proof > 0
        /\ score > 600

\* C8 amended: the CTA sub-score is 80 (one phrase of the set is present,
\* however often), the social-proof sub-score is 80 and the score is 59.4.
C8_BuyNowCta80 ==
    (spc = "done" /\ text = BuyNowText /\ platform = "instagram") =>
        /\ components.cta = 80 * Point
        /\ components.social_proof = 80 * Point
        /\ score = 594

\* the text has been scored for instagram
C8_Witness ==
    /\ spc = "done"
    /\ text = BuyNowText
    /\ platform = "instagram"
    /\ components.cta > 0
    /\ score > 0

\* C9: for a fixed word count the density score does not fall when a hit is
\* added while the density stays at or below 6%, and does not rise when a hit
\* is added to a density above 6%.
C9_DensityMonotone ==
    [][ (dHits' = dHits + 1 /\ Len(dWords') = Len(dWords)) =>
            /\ (dHits' * 100 <= 6 * Len(dWords)) => dScore' >= dScore
            /\ (dHits * 100 > 6 * Len(dWords)) => dScore' <= dScore ]_vars

\* 120 words: one hit is below 1%, and nine hits are past 6% and score less
\* than the 100 of 6%
C9_Witness ==
    /\ Len(dWords) = 120
    /\ dHits = 9
    /\ dScore < 100 * Point
    /\ dScore > 40 * Point
    /\ DensityScore(1, 120) = 25 * Point

\* one platform key, the same for every text of charCount characters, among
\* those whose optimal range holds charCount
ReferencePlatform(charCount) ==
    CHOOSE p \in PlatformKeys : InOptimalRange(charCount, p)

\* C10: the platform acts on the score through the length component only:
\* two platform keys whose optimal ranges both hold the character count of
\* the text give the same score.  Every such key gives the score of the
\* reference key of that character count, hence any two give the same.
C10_PlatformOnlyThroughLength ==
    (spc = "done" /\ InOptimalRange(Len(text), platform)) =>
        score = ScoreOf(text, ReferencePlatform(Len(text)))

\* a text scored for twitter whose length also suits facebook, whose range
\* differs
C10_Witness ==
    /\ spc = "done"
    /\ platform = "twitter"
    /\ InOptimalRange(Len(text), "twitter")
    /\ InOptimalRange(Len(text), "facebook")
    /\ OptimalRange("twitter") # OptimalRange("facebook")
    /\ score > 0

\* the sum of the seven weights, in hundredths
WeightTotal ==
    Weights.cta + Weights.power_words + Weights.emotional + Weights.urgency
    + Weights.length + Weights.readability + Weights.social_proof

\* C17: for a text with at least one word each of the seven sub-scores is
\* within [0,100] and the weights sum to 1.0 (100 hundredths), so the weighted
\* sum lies in [0,100], the clamp leaves it as it is, and the score returned is
\* the weighted sum rounded to one decimal.
C17_SubScoresAndWeights ==
    /\ WeightTotal = 100
    /\ spc \in {"combine", "done"} /\ SplitWords(Lower(text)) # <<>> =>
        /\ \A k \in ComponentNames : 0 <= components[k] /\ components[k] <= 100 * Point
        /\ 0 <= WeightedSum(components)
        /\ WeightedSum(components) <= 100 * WeightTotal * Point
        /\ spc = "done" => score = Round1(WeightedSum(components))

\* a text that matches at least three social-proof patterns (capped at 100) was scored
C17_Witness ==
    /\ spc = "done"
    /\ Cardinality({i \in 1..7 : SOCIAL_PROOF_PATTERNS(Lower(text))[i]}) >= 3
    /\ components.social_proof = 100 * Point
    /\ score = Round1(WeightedSum(components))
    /\ score > 0

-----------------------------------------------------------------------------
(* Properties of the structured path and of the numbered-line fallback     *)

\* a list with at least one item
NonEmptyList(v) == v.t = "list" /\ v.items # <<>>

\* C13: for a JSON object the item list is the "variations" value when that
\* is a non-empty list, otherwise the "copies" value when that is a non-empty
\* list, and otherwise the first list among the object's values (if it has one).
C13_ItemsByKeyPriority ==
    (pc \in {"collect", "fallback", "done"} /\ data.t = "dict") =>
        LET byVariations == DictGet(data, KeyVariations, NoValue)
            byCopies     == DictGet(data, KeyCopies, NoValue)
            firstList    == FirstList(data.pairs)
        IN  IF NonEmptyList(byVariations) THEN items = byVariations
            ELSE IF NonEmptyList(byCopies) THEN items = byCopies
            ELSE firstList.t = "list" => items = firstList

\* the value of the first of "copy", "text", "content" that holds a true value
FirstTextOf(item) ==
    LET c == DictGet(item, KeyCopy, JStr(<<>>))
        t == DictGet(item, KeyText, JStr(<<>>))
    IN  IF Truthy(c) THEN c
        ELSE IF Truthy(t) THEN t
        ELSE DictGet(item, KeyContent, JStr(<<>>))

RECURSIVE ContributedTexts(_)
\* what the items contribute when a keyed item is skipped only if none of its
\* three keys holds a true value
ContributedTexts(xs) ==
    IF xs = <<>> THEN <<>>
    ELSE LET item == Head(xs)
             rest == ContributedTexts(Tail(xs))
         IN  IF item.t = "str" THEN <<item.s>> \o rest
             ELSE IF item.t = "dict" /\ Truthy(FirstTextOf(item))
                  THEN <<PyStr(FirstTextOf(item))>> \o rest
             ELSE rest

\* C14: on the structured path a plain-string item contributes itself and a
\* keyed item the text under "copy", else "text", else "content", skipped only
\* if none of the three yields text; the result is the first three of the
\* contributions, in the order of the items.
C14_ItemTextFallsBackByKey ==
    (pc = "done" /\ items.t = "list" /\ ContributedTexts(items.items) # <<>>) =>
        /\ outcome = "returned"
        /\ result = Take(ContributedTexts(items.items), 3)

\* k numbered lines with the same body:  1. body / 2. body / ...
NumberedLines(k, mark, body) == Join([n \in 1..k |-> NumberedLine(n, mark, body)], <<"\n">>)

\* C15: for raw text made of k lines that each begin with a number marker the
\* fallback returns the first min(k,3) line bodies in order, each without its
\* marker and trimmed of whitespace and quotes, none of them empty.
C15_NumberedLinesWithoutMarkers ==
    \A k \in 1..MaxItems, mark \in {".", ")"}, body \in {<<"a">>, Quoted(<<"a">>), <<"a"," ","b">>} :
        (pc = "done" /\ raw = NumberedLines(k, mark, body)) =>
            /\ outcome = "returned"
            /\ result = [i \in 1..Min(k, 3) |-> StripQuote(Strip(body))]
            /\ \A i \in 1..Len(result) : result[i] # <<>>

-----------------------------------------------------------------------------
(* Properties of PromptEngine.build_user_prompt                            *)

\* first index >= from at which p occurs in s (0 if none)
FirstAt(s, from, p) ==
    IF \E i \in from..(Len(s) - Len(p) + 1) : HasPrefixAt(s, i, p)
    THEN CHOOSE i \in from..(Len(s) - Len(p) + 1) :
            /\ HasPrefixAt(s, i, p)
            /\ \A j \in from..(i - 1) : ~HasPrefixAt(s, j, p)
    ELSE 0

RECURSIVE InOrderFrom(_, _, _)
\* the texts of ps occur in s at or after from, one after the end of the other;
\* the index after the last of them, 0 if they do not
InOrderFrom(s, from, ps) ==
    IF ps = <<>> THEN from
    ELSE LET i == FirstAt(s, from, Head(ps))
         IN  IF i = 0 THEN 0 ELSE InOrderFrom(s, i + Len(Head(ps)), Tail(ps))

\* s ends with p
EndsWith(s, p) == Len(p) <= Len(s) /\ HasPrefixAt(s, Len(s) - Len(p) + 1, p)

\* the five fields of the prompt with their labels
PromptFields ==
    << <<"P","R","O","D","U","C","T",":"," ">> \o product_name,
       <<"D","E","S","C","R","I","P","T","I","O","N",":"," ">> \o product_description,
       <<"T","A","R","G","E","T"," ","A","U","D","I","E","N","C","E",":"," ">> \o target_audience,
       <<"T","O","N","E",":"," ">> \o tone \o <<" ","U+2014"," ">> \o tone_guide,
       <<"P","L","A","T","F","O","R","M",":"," ">> \o prompt_platform \o <<"\n","P","L","A","T","F","O","R","M"," ","G","U","I","D","E","L","I","N","E","S",":"," ">> \o platform_guide >>

\* C11: the prompt returned by build_user_prompt starts with the PRODUCT
\* field, holds the product name, the description and the audience verbatim,
\* holds the fields PRODUCT, DESCRIPTION, TARGET AUDIENCE, TONE with its
\* modifier and PLATFORM with its guideline one after the other in this order,
\* and ends with the generation directive, which comes after all of them.
C11_PromptFieldsInOrder ==
    ppc = "done" =>
        /\ Contains(user_prompt, product_name)
        /\ Contains(user_prompt, product_description)
        /\ Contains(user_prompt, target_audience)
        /\ HasPrefixAt(user_prompt, 1, PromptFields[1])
        /\ EndsWith(user_prompt, Directive)
        /\ LET end == InOrderFrom(user_prompt, 1, PromptFields)
           IN  end # 0 /\ end <= Len(user_prompt) - Len(Directive) + 1

\* a prompt was built from fields that hold label text themselves, for a known
\* tone and a known platform
C11_Witness ==
    /\ ppc = "done"
    /\ product_name = <<"A","\n","T","O","N","E",":"," ","b">>
    /\ product_description = <<"P","R","O","D","U","C","T",":"," ","M","u","g">>
    /\ target_audience = <<"P","L","A","T","F","O","R","M",":"," ","x","\n">>
    /\ tone = <<"w","i","t","t","y">>
    /\ prompt_platform = <<"l","i","n","k","e","d","i","n">>
    /\ Len(user_prompt) > Len(platform_guide) + Len(tone_guide) + Len(Directive)

\* C12: once build_user_prompt has looked the keys up, the guideline of a
\* platform key of the table is its table entry and that of any other key is
\* the general-best-practices text; the modifier of a tone key of the table
\* is its table entry and that of any other key is empty; the method then
\* returns a prompt that holds both (there is no path on which it raises).
C12_UnknownKeysUseDefaults ==
    /\ ppc \in {"format", "done"} =>
        /\ prompt_platform \in DOMAIN PLATFORM_GUIDELINES
              => platform_guide = PLATFORM_GUIDELINES[prompt_platform]
        /\ prompt_platform \notin DOMAIN PLATFORM_GUIDELINES
              => platform_guide = <<"F","o","l","l","o","w"," ","g","e","n","e","r","a","l"," ","b","e","s","t"," ","p","r","a","c","t","i","c","e","s",".">>
        /\ tone \in DOMAIN TONE_MODIFIERS => tone_guide = TONE_MODIFIERS[tone]
        /\ tone \notin DOMAIN TONE_MODIFIERS => tone_guide = <<>>
    /\ ppc = "done" =>
        /\ EndsWith(user_prompt, <<"P","L","A","T","F","O","R","M"," ","G","U","I","D","E","L","I","N","E","S",":"," ">> \o platform_guide
                                   \o <<"\n","\n">> \o Directive)
        /\ Contains(user_prompt, <<"T","O","N","E",":"," ">> \o tone \o <<" ","U+2014"," ">> \o tone_guide \o <<"\n">>)

\* a prompt was built for a tone and a platform that are not in the tables
C12_Witness ==
    /\ ppc = "done"
    /\ tone = <<"s","a","r","c","a","s","t","i","c">>
    /\ prompt_platform = <<"t","i","k","t","o","k">>
    /\ platform_guide = DefaultPlatformGuide
    /\ tone_guide = <<>>

-----------------------------------------------------------------------------
(* Properties of PersuasionScorer._length_score                            *)

\* C16: _length_score is 100 exactly when the character count lies in the
\* optimal range of the platform (50..500 for a key that is not in the table),
\* is (c/low)*80 below the range and max(100 - ((c-high)/high)*150, 10) above
\* it; it is always within [0,100], below 100 outside the range and at least
\* 10 above the range.  (Scores in thousandths, quotients rounded down.)
C16_LengthScoreByRange ==
    lpc = "done" =>
        LET c    == char_count
            low  == IF length_platform \in DOMAIN OPTIMAL_LENGTHS
                    THEN OPTIMAL_LENGTHS[length_platform][1] ELSE 50
            high == IF length_platform \in DOMAIN OPTIMAL_LENGTHS
                    THEN OPTIMAL_LENGTHS[length_platform][2] ELSE 500
        IN  /\ (length_score = 100 * Point) <=> (low <= c /\ c <= high)
            /\ c < low => length_score = (c * 80 * Point) \div low
            /\ c > high =>
                  LET linear == 100 * Point - ((c - high) * 150 * Point) \div high
                  IN  length_score = IF linear >= 10 * Point THEN linear ELSE 10 * Point
            /\ 0 <= length_score /\ length_score <= 100 * Point
            /\ (c < low \/ c > high) => length_score < 100 * Point
            /\ c > high => length_score >= 10 * Point

\* a count so far above the range of an unknown platform that the lower limit
\* of 10 applies
C16_Witness ==
    /\ lpc = "done"
    /\ length_platform = "tiktok"
    /\ char_count = 1300
    /\ length_score = 10 * Point

-----------------------------------------------------------------------------
(* Properties of GenerateCopyView.post and generate_copy_variations        *)

\* how many rows the request being served has
RowsOfRequest == Cardinality({i \in 1..Len(records) : records[i] = request})

\* C18: a row is created only after generate_copy_variations has returned;
\* a rate-limit error of the provider is answered with 503 ai_rate_limit, a
\* timeout or another API error with 503 ai_service_error, in both cases
\* without a row; 201 is answered only once exactly one row of the request
\* exists.
C18_RecordOnlyAfterSuccess ==
    /\ RowsOfRequest <= 1
    /\ RowsOfRequest = 1 => gen_result.kind = "returned"
    /\ (vpc = "done" /\ gen_result.kind = "raised" /\ gen_result.exc \in ProviderErrors) =>
          /\ response.status = 503
          /\ response.error = IF gen_result.exc = "RateLimitError" THEN "ai_rate_limit"
                               ELSE "ai_service_error"
          /\ RowsOfRequest = 0
    /\ response.status = 201 => (gen_result.kind = "returned" /\ RowsOfRequest = 1)

\* the provider raised a rate-limit error for the second request, which was
\* answered 503 with the row of the first request as the only row
C18_Witness ==
    /\ vpc = "done"
    /\ request = 2
    /\ gen_result = Raised("RateLimitError")
    /\ response = [status |-> 503, error |-> "ai_rate_limit"]
    /\ records = <<1>>

\* C19: when _parse_variations returns, its list has 1 to 3 entries, so the
\* result of generate_copy_variations carries 1 to 3 scored variations: the
\* copies of the parser's list in the same order, each with its score.
C19_OneToThreeScored ==
    gen_result.kind = "returned" =>
        /\ raw = raw_content /\ outcome = "returned" /\ variations = result
        /\ Len(variations) \in 1..3
        /\ Len(gen_result.value) = Len(variations)
        /\ \A i \in 1..Len(variations) :
              /\ gen_result.value[i].copy = variations[i]
              /\ gen_result.value[i].persuasion_score = ScoreOf(variations[i], req_platform)

\* the content was None: the parser returned the placeholder alone, which was
\* scored and stored
C19_Witness ==
    /\ vpc = "done"
    /\ raw_content = <<>>
    /\ variations = <<Placeholder>>
    /\ Len(gen_result.value) = 1
    /\ gen_result.value[1].persuasion_score > 0
    /\ response.status = 201

=============================================================================
